---- MODULE Spec2Model ----
(***************************************************************************)
(* A model of fss-parse-word-ts: WordParser (parseDocument, the container  *)
(* read, extractText with its fallback scan, extractMetadata,              *)
(* convertToFormat) and SafetyManager.validateFile.                        *)
(*                                                                         *)
(* JavaScript strings are sequences of one-character strings, so that      *)
(* trim, includes, the regular-expression replacements and parseInt are    *)
(* computed character by character.  An optional value is <<>> (absent,    *)
(* undefined) or <<v>> (present).                                          *)
(***************************************************************************)
EXTENDS Integers, Sequences, FiniteSets, TLC

VARIABLES
    parsedDoc,    \* extractText: the parsed tree handed to it
    finalText,    \* extractText: <<>> before the call, <<text>> after it
    docxContent,  \* extractMetadata: the part mapping handed to it
    metadata,     \* extractMetadata: <<>> before the call, <<record>> after it
    fmtArgs,      \* convertToFormat: [content, format, metadata]
    fmtOut,       \* convertToFormat: <<>> before the call, <<output>> after it
    config,       \* WordParser.config
    file,         \* the file at filePath, as validateFile and yauzl.open see it
    pc,           \* position of the parseDocument call
    zip,          \* state of the container read (extractDocxContent)
    reads,        \* number of zipfile.readEntry() calls made
    opening,      \* entries whose openReadStream callback is due
    streams,      \* open read streams: entry |-> chunks received so far
    nEntries,     \* number of 'entry' events so far
    content,      \* extractDocxContent: the part mapping being filled
    promise,      \* the promise of extractDocxContent
    result,       \* the ProcessingResult of the call
    log,          \* the stages of the call, in the order they started
    ctorConfig,   \* the options handed to the constructor
    updates,      \* the updateConfig calls so far: when, and the options before
    backups,      \* the createBackup calls that copied the file: when
    walkStack,    \* the primary walk: the elements still to be handled
    walkParts,    \* the primary walk: textParts so far
    origins,      \* for each fragment of walkParts, the element that pushed it
    visited       \* the elements handled so far, each with the rule applied

vars == <<parsedDoc, finalText, docxContent, metadata, fmtArgs, fmtOut, config,
          file, pc, zip, reads, opening, streams, nEntries, content, promise,
          result, log, ctorConfig, updates, backups, walkStack, walkParts,
          origins, visited>>

walkVars  == <<walkStack, walkParts, origins, visited>>
textVars  == <<parsedDoc, finalText, walkVars>>
metaVars  == <<docxContent, metadata>>
fmtVars   == <<fmtArgs, fmtOut>>
parseVars == <<config, file, pc, zip, reads, opening, streams, nEntries, content,
               promise, result, log>>
hostVars  == <<ctorConfig, updates, backups>>

None == <<>>
Some(v) == <<v>>

(***************************************************************************)
(* Characters and strings                                                  *)
(***************************************************************************)
Lower == {"a","b","c","d","e","f","g","h","i","j","k","l","m",
          "n","o","p","q","r","s","t","u","v","w","x","y","z"}
Upper == {"A","B","C","D","E","F","G","H","I","J","K","L","M",
          "N","O","P","Q","R","S","T","U","V","W","X","Y","Z"}
Digit == {"0","1","2","3","4","5","6","7","8","9"}
HexChar == Digit \cup {"A","B","C","D","E","F"}
Newline == {"\n"}
Blank == {" ", "\t"}
WhiteSpace == {" ", "\t", "\n"}

SubStr(s, i, j) == IF i > j THEN <<>> ELSE SubSeq(s, i, j)
Drop(s, n) == SubStr(s, n + 1, Len(s))

\* String.prototype.startsWith / endsWith / includes
StartsWith(s, p) == Len(p) <= Len(s) /\ SubStr(s, 1, Len(p)) = p
EndsWith(s, p) == Len(p) <= Len(s) /\ SubStr(s, Len(s) - Len(p) + 1, Len(s)) = p
Includes(s, p) == \E i \in 0..(Len(s) - Len(p)) : SubStr(s, i + 1, i + Len(p)) = p

\* the least of a set of indices (the leftmost match), 0 when there is none
FirstMatch(I) == IF I = {} THEN 0 ELSE CHOOSE i \in I : \A j \in I : i <= j

\* String.prototype.trim
TrimLeft(s) ==
    LET m == FirstMatch({i \in 1..Len(s) : s[i] \notin WhiteSpace}) IN
    IF m = 0 THEN <<>> ELSE Drop(s, m - 1)
TrimRight(s) ==
    LET I == {i \in 1..Len(s) : s[i] \notin WhiteSpace} IN
    IF I = {} THEN <<>> ELSE SubStr(s, 1, CHOOSE i \in I : \A j \in I : j <= i)
Trim(s) == TrimRight(TrimLeft(s))

\* Array.prototype.join
RECURSIVE Join(_, _)
Join(parts, sep) ==
    IF parts = <<>> THEN <<>>
    ELSE IF Len(parts) = 1 THEN parts[1]
    ELSE parts[1] \o sep \o Join(Tail(parts), sep)

\* length of the longest prefix of s made of characters of class C
RunLen(s, C) ==
    LET stop == FirstMatch({i \in 1..Len(s) : s[i] \notin C}) IN
    IF stop = 0 THEN Len(s) ELSE stop - 1

\* length of the longest prefix of s with no character of class C
GapLen(s, C) ==
    LET stop == FirstMatch({i \in 1..Len(s) : s[i] \in C}) IN
    IF stop = 0 THEN Len(s) ELSE stop - 1

\* the greatest of a set of indices, 0 when there is none
LastMatch(I) == IF I = {} THEN 0 ELSE CHOOSE i \in I : \A j \in I : j <= i

\* s.replace(/C{min,}/g, rep): every maximal run of at least min characters of
\* class C becomes rep.  Each rep used is a run of one character of C no longer
\* than min, so the result is s without the characters of a long run that lie
\* beyond the length of rep.
ReplaceRuns(s, C, min, rep) ==
    LET RunStart(i) == LastMatch({k \in 1..i : s[k] \notin C}) + 1
        RunEnd(i) ==
            LET stop == FirstMatch({k \in i..Len(s) : s[k] \notin C}) IN
            IF stop = 0 THEN Len(s) ELSE stop - 1
        Replaced(i) == s[i] \in C /\ RunEnd(i) - RunStart(i) + 1 >= min
        Kept(i) == ~Replaced(i) \/ i - RunStart(i) < Len(rep)
        kept == SelectSeq([i \in 1..Len(s) |-> i], Kept)
    IN  [j \in 1..Len(kept) |->
            IF Replaced(kept[j]) THEN rep[kept[j] - RunStart(kept[j]) + 1]
            ELSE s[kept[j]]]

\* s.replace(/\n /g, '\n'): the scan resumes after each match
RECURSIVE DropSpaceAfterNewline(_)
DropSpaceAfterNewline(s) ==
    LET m == FirstMatch({i \in 1..(Len(s) - 1) : s[i] = "\n" /\ s[i + 1] = " "}) IN
    IF m = 0 THEN s
    ELSE SubStr(s, 1, m) \o DropSpaceAfterNewline(Drop(s, m + 1))

\* s.replace(/([A])([B])/g, '$1 $2'): the scan resumes after the two characters
RECURSIVE SplitPair(_, _, _)
SplitPair(s, A, B) ==
    LET m == FirstMatch({i \in 1..(Len(s) - 1) : s[i] \in A /\ s[i + 1] \in B}) IN
    IF m = 0 THEN s
    ELSE SubStr(s, 1, m) \o <<" ", s[m + 1]>> \o SplitPair(Drop(s, m + 1), A, B)

\* s.replace(/([A-Z])([A-Z][a-z])/g, '$1 $2'): the scan resumes after the three
RECURSIVE SplitCaps(_)
SplitCaps(s) ==
    LET m == FirstMatch({i \in 1..(Len(s) - 2) : /\ s[i] \in Upper
                                                   /\ s[i + 1] \in Upper
                                                   /\ s[i + 2] \in Lower}) IN
    IF m = 0 THEN s
    ELSE SubStr(s, 1, m) \o <<" ", s[m + 1], s[m + 2]>> \o SplitCaps(Drop(s, m + 2))

(***************************************************************************)
(* The parsed XML tree (xml2js with explicitArray: false, mergeAttrs: true)*)
(* A node is a string, an array of nodes, an object (its entries in        *)
(* Object.entries order) or undefined.                                     *)
(***************************************************************************)
Str(s) == [kind |-> "string", s |-> s]
Arr(items) == [kind |-> "array", items |-> items]
Obj(entries) == [kind |-> "object", entries |-> entries]
Undefined == [kind |-> "undefined"]
KV(k, v) == [k |-> k, v |-> v]

K_wt == <<"w",":","t">>
K_wp == <<"w",":","p">>
K_wr == <<"w",":","r">>
K_wtab == <<"w",":","t","a","b">>
K_wbr == <<"w",":","b","r">>
K_wdocument == <<"w",":","d","o","c","u","m","e","n","t">>
K_wbody == <<"w",":","b","o","d","y">>
K_text == <<"_">>
K_attrs == <<"$">>
K_xmlspace == <<"x","m","l",":","s","p","a","c","e">>
S_preserve == <<"p","r","e","s","e","r","v","e">>
S_Pr == <<"P","r">>
S_Style == <<"S","t","y","l","e">>
S_Properties == <<"P","r","o","p","e","r","t","i","e","s">>
S_Fonts == <<"F","o","n","t","s">>
S_Settings == <<"S","e","t","t","i","n","g","s">>
S_wprefix == <<"w",":">>
S_schemas == <<"h","t","t","p",":","/","/","s","c","h","e","m","a","s">>
S_schemasMicrosoft ==
    <<"h","t","t","p",":","/","/","s","c","h","e","m","a","s",
      ".","m","i","c","r","o","s","o","f","t",".","c","o","m">>

Bool(b) == [kind |-> "boolean", b |-> b]

\* JavaScript truthiness of a value: undefined, false and '' are falsy
Truthy(n) ==
    \/ n.kind \in {"array", "object"}
    \/ n.kind = "string" /\ n.s # <<>>
    \/ n.kind = "boolean" /\ n.b

\* typeof n === 'object' for a truthy n
IsObjectType(n) == n.kind \in {"array", "object"}

\* n[key]: the value of the first entry with that key, undefined when none
Prop(n, key) ==
    IF n.kind = "object" /\ \E i \in 1..Len(n.entries) : n.entries[i].k = key
    THEN n.entries[CHOOSE i \in 1..Len(n.entries) :
                      /\ n.entries[i].k = key
                      /\ \A j \in 1..(i - 1) : n.entries[j].k # key].v
    ELSE Undefined

(***************************************************************************)
(* extractText: the primary walk                                           *)
(***************************************************************************)
\* the value taken from element['w:t'] (lines 157-168), as a node
LiteralText(wt) ==
    IF wt.kind = "string" THEN wt
    ELSE IF IsObjectType(wt) /\ Truthy(Prop(wt, K_text)) THEN Prop(wt, K_text)
    ELSE IF IsObjectType(wt) /\ Truthy(Prop(wt, K_attrs))
         THEN IF Prop(Prop(wt, K_attrs), K_xmlspace) = Str(S_preserve)
              THEN (IF Truthy(Prop(wt, K_text)) THEN Prop(wt, K_text) ELSE Str(<<>>))
              ELSE Str(<<>>)
    ELSE Str(<<>>)

\* the test of line 171: only meaningful text is pushed
MeaningfulText(text) ==
    /\ Truthy(text)
    /\ text.kind = "string"
    /\ Trim(text.s) # <<>>
    /\ ~Includes(text.s, S_schemas)

\* (variant that skips no property-named key)
RecursedKeyBug(key) ==
    /\ StartsWith(key, S_wprefix)
    /\ key # K_wt
\* the key filter of the generic recursion (lines 217-223)
RecursedKey(key) ==
    /\ StartsWith(key, S_wprefix)
    /\ ~Includes(key, S_Pr)
    /\ ~Includes(key, S_Style)
    /\ ~Includes(key, S_Properties)
    /\ ~Includes(key, S_Fonts)
    /\ ~Includes(key, S_Settings)
    /\ key # K_wt

\* the paragraph break of lines 179-181
ParagraphBreak(textParts) ==
    IF Len(textParts) > 0 /\ ~EndsWith(textParts[Len(textParts)], <<"\n">>)
    THEN Append(textParts, <<"\n", "\n">>)
    ELSE textParts

\* extractTextFromElement(element), as the textParts it leaves
RECURSIVE extractTextFromElement(_, _)
RECURSIVE WalkItems(_, _)
RECURSIVE WalkEntries(_, _)
WalkItems(items, textParts) ==
    IF items = <<>> THEN textParts
    ELSE WalkItems(Tail(items), extractTextFromElement(items[1], textParts))
WalkEntries(entries, textParts) ==
    IF entries = <<>> THEN textParts
    ELSE WalkEntries(Tail(entries),
                     IF RecursedKey(entries[1].k)
                     THEN extractTextFromElement(entries[1].v, textParts)
                     ELSE textParts)
extractTextFromElement(element, textParts) ==
    IF ~Truthy(element) THEN textParts
    ELSE IF element.kind = "string" THEN
        LET cleanText == Trim(element.s) IN
        IF cleanText # <<>> /\ ~Includes(cleanText, S_schemasMicrosoft)
        THEN Append(textParts, cleanText)
        ELSE textParts
    ELSE IF element.kind = "array" THEN WalkItems(element.items, textParts)
    ELSE IF Truthy(Prop(element, K_wt)) THEN
        LET text == LiteralText(Prop(element, K_wt)) IN
        IF MeaningfulText(text) THEN Append(textParts, text.s) ELSE textParts
    ELSE IF Truthy(Prop(element, K_wp)) THEN
        extractTextFromElement(Prop(element, K_wp), ParagraphBreak(textParts))
    ELSE IF Truthy(Prop(element, K_wr)) THEN
        extractTextFromElement(Prop(element, K_wr), textParts)
    ELSE IF Truthy(Prop(element, K_wtab)) THEN Append(textParts, <<"\t">>)
    ELSE IF Truthy(Prop(element, K_wbr)) THEN Append(textParts, <<"\n">>)
    ELSE IF Truthy(Prop(element, K_wdocument)) THEN
        extractTextFromElement(Prop(element, K_wdocument), textParts)
    ELSE IF Truthy(Prop(element, K_wbody)) THEN
        extractTextFromElement(Prop(element, K_wbody), textParts)
    ELSE WalkEntries(element.entries, textParts)

MaxNewlines == 3
MinHexRun == 8
FallbackThreshold == 10
MinTokenLength == 2

\* the clean-up of lines 233-244, applied to the joined fragments
NormalizeText(joined) ==
    LET s1 == ReplaceRuns(joined, Newline, MaxNewlines, <<"\n", "\n">>)
        s2 == ReplaceRuns(s1, Blank, 1, <<" ">>)
        s3 == DropSpaceAfterNewline(s2)
        s4 == SplitPair(s3, Lower, Upper)
        s5 == SplitCaps(s4)
        s6 == SplitPair(s5, Digit, Upper)
        s7 == SplitPair(s6, Lower, Digit)
        s8 == ReplaceRuns(s7, HexChar, MinHexRun, <<>>)
        s9 == ReplaceRuns(s8, WhiteSpace, 1, <<" ">>)
    IN  Trim(s9)

\* the primary result: the walk, the join with spaces, the clean-up
PrimaryText(doc) == NormalizeText(Join(extractTextFromElement(doc, <<>>), <<" ">>))

(***************************************************************************)
(* extractTextFallback                                                     *)
(***************************************************************************)
RECURSIVE findText(_, _)
RECURSIVE FindItems(_, _)
RECURSIVE FindValues(_, _)
FindItems(items, textParts) ==
    IF items = <<>> THEN textParts
    ELSE FindItems(Tail(items), findText(items[1], textParts))
FindValues(entries, textParts) ==
    IF entries = <<>> THEN textParts
    ELSE FindValues(Tail(entries), findText(entries[1].v, textParts))
findText(element, textParts) ==
    IF element.kind = "string" /\ Trim(element.s) # <<>>
       /\ ~Includes(element.s, S_schemas)
    THEN Append(textParts, Trim(element.s))
    ELSE IF element.kind = "array" THEN FindItems(element.items, textParts)
    ELSE IF element.kind = "object" THEN FindValues(element.entries, textParts)
    ELSE textParts

\* (variant without the test for pure numbers)
KeptTokenNoNumberTest(text) == Len(text) > MinTokenLength
\* the filter of line 274: no short tokens, no pure numbers
KeptToken(text) ==
    /\ Len(text) > MinTokenLength
    /\ ~(\A i \in 1..Len(text) : text[i] \in Digit)

extractTextFallback(obj) ==
    LET textParts == findText(obj, <<>>)
        kept == SelectSeq(textParts, KeptToken)
    IN  Trim(ReplaceRuns(Join(kept, <<" ">>), WhiteSpace, 1, <<" ">>))

\* extractText(parsedDoc), lines 132-256
extractText(doc) ==
    LET primary == PrimaryText(doc) IN
    IF primary = <<>> \/ Len(primary) < FallbackThreshold
    THEN LET fallbackText == extractTextFallback(doc) IN
         IF fallbackText # <<>> /\ Len(fallbackText) > Len(primary)
         THEN fallbackText
         ELSE primary
    ELSE primary

(***************************************************************************)
(* The document trees extractText is applied to: what xml2js gives for     *)
(* word/document.xml.  A repeated tag is an array under its name, a single *)
(* one the element itself; attributes are keys of their element.           *)
(***************************************************************************)
T_Hello == <<"H","e","l","l","o">>
T_First == <<"F","i","r","s","t">>
T_Second == <<"S","e","c","o","n","d">>
T_Title == <<"T","i","t","l","e">>
T_Spaced == <<"H","i"," "," ","y","o","u">>
T_Namespace ==
    <<"h","t","t","p",":","/","/","s","c","h","e","m","a","s",".","o","p","e","n",
      "x","m","l","f","o","r","m","a","t","s",".","o","r","g","/","m","a","i","n">>
T_FieldCode ==
    <<"h","t","t","p",":","/","/","s","c","h","e","m","a","s",".","o","p","e","n",
      "x","m","l","f","o","r","m","a","t","s",".","o","r","g","/","l","i","n","k">>
T_Heading1 == <<"H","e","a","d","i","n","g","1">>
T_Calibri == <<"C","a","l","i","b","r","i">>
T_TableGrid == <<"T","a","b","l","e","G","r","i","d">>
T_landscape == <<"l","a","n","d","s","c","a","p","e">>
T_dxa == <<"d","x","a">>
K_xmlnsw == <<"x","m","l","n","s",":","w">>
K_wpPr == <<"w",":","p","P","r">>
K_wpStyle == <<"w",":","p","S","t","y","l","e">>
K_wval == <<"w",":","v","a","l">>
K_wrPr == <<"w",":","r","P","r">>
K_wrFonts == <<"w",":","r","F","o","n","t","s">>
K_wascii == <<"w",":","a","s","c","i","i">>
K_winstrText == <<"w",":","i","n","s","t","r","T","e","x","t">>
K_wsectPr == <<"w",":","s","e","c","t","P","r">>
K_wpgSz == <<"w",":","p","g","S","z">>
K_worient == <<"w",":","o","r","i","e","n","t">>
K_wtbl == <<"w",":","t","b","l">>
K_wtblPr == <<"w",":","t","b","l","P","r">>
K_wtblStyle == <<"w",":","t","b","l","S","t","y","l","e">>
K_wtr == <<"w",":","t","r">>
K_wtrPr == <<"w",":","t","r","P","r">>
K_wtc == <<"w",":","t","c">>
K_wtcPr == <<"w",":","t","c","P","r">>
K_wtcW == <<"w",":","t","c","W">>
K_wtype == <<"w",":","t","y","p","e">>
K_wjc == <<"w",":","j","c">>
K_ww == <<"w",":","w">>
T_12240 == <<"1","2","2","4","0">>
T_center == <<"c","e","n","t","e","r">>

\* <w:p><w:r><w:t>t</w:t></w:r></w:p>
Run(t) == Obj(<<KV(K_wt, Str(t))>>)
Para(t) == Obj(<<KV(K_wr, Run(t))>>)
\* a paragraph with paragraph and run properties
StyledPara(t) ==
    Obj(<<KV(K_wpPr, Obj(<<KV(K_wpStyle, Obj(<<KV(K_wval, Str(T_Heading1))>>))>>)),
          KV(K_wr, Obj(<<KV(K_wrPr,
                            Obj(<<KV(K_wrFonts, Obj(<<KV(K_wascii, Str(T_Calibri))>>))>>)),
                         KV(K_wt, Str(t))>>))>>)
\* a paragraph whose run holds a field instruction and no literal text
FieldPara(t) == Obj(<<KV(K_wr, Obj(<<KV(K_winstrText, Str(t))>>))>>)

PlainWords == {T_Hello, T_First, T_Second}

Paragraphs ==
    {Para(t) : t \in PlainWords \cup {T_Spaced, T_Namespace}}
    \cup {StyledPara(T_Title), FieldPara(T_FieldCode)}

MaxParagraphs == 3
MaxCellParagraphs == 2

ParagraphLists == UNION {[1..n -> Paragraphs] : n \in 1..MaxParagraphs}
CellParagraphLists == UNION {[1..n -> Paragraphs] : n \in 1..MaxCellParagraphs}

\* the value of the w:p key for a list of paragraphs
ParagraphChild(ps) == IF Len(ps) = 1 THEN ps[1] ELSE Arr(ps)

SectPr ==
    Obj(<<KV(K_wpgSz, Obj(<<KV(K_ww, Str(T_12240)), KV(K_worient, Str(T_landscape))>>))>>)

\* {w:document: {w:body: {w:p: ...}}}
BareDocument(ps) ==
    Obj(<<KV(K_wdocument, Obj(<<KV(K_wbody, Obj(<<KV(K_wp, ParagraphChild(ps))>>))>>))>>)
\* the same with the namespace attribute of the root and section properties
FullDocument(ps) ==
    Obj(<<KV(K_wdocument,
             Obj(<<KV(K_xmlnsw, Str(T_Namespace)),
                   KV(K_wbody, Obj(<<KV(K_wp, ParagraphChild(ps)),
                                     KV(K_wsectPr, SectPr)>>))>>))>>)
\* a body that holds one table, its paragraphs in the cell
TableDocument(ps) ==
    Obj(<<KV(K_wdocument,
             Obj(<<KV(K_xmlnsw, Str(T_Namespace)),
                   KV(K_wbody,
                      Obj(<<KV(K_wtbl,
                               Obj(<<KV(K_wtblPr,
                                        Obj(<<KV(K_wtblStyle,
                                                 Obj(<<KV(K_wval, Str(T_TableGrid))>>))>>)),
                                     KV(K_wtr,
                                        Obj(<<KV(K_wtrPr,
                                                 Obj(<<KV(K_wjc,
                                                          Obj(<<KV(K_wval, Str(T_center))>>))>>)),
                                              KV(K_wtc,
                                                 Obj(<<KV(K_wtcPr,
                                                          Obj(<<KV(K_wtcW,
                                                                   Obj(<<KV(K_wtype, Str(T_dxa))>>))>>)),
                                                       KV(K_wp, ParagraphChild(ps))>>))>>))>>)),
                            KV(K_wsectPr, SectPr)>>))>>))>>)

T_introduction == <<"i","n","t","r","o","d","u","c","t","i","o","n">>
T_background == <<"b","a","c","k","g","r","o","u","n","d">>
T_methodology == <<"m","e","t","h","o","d","o","l","o","g","y">>
T_conclusions == <<"c","o","n","c","l","u","s","i","o","n","s">>
T_appendices == <<"a","p","p","e","n","d","i","c","e","s">>
T_references == <<"r","e","f","e","r","e","n","c","e","s">>
T_page == <<"p","a","g","e">>
T_default == <<"d","e","f","a","u","l","t">>

\* <w:br w:type="page"/> as parsed, and an element without attributes or
\* content such as <w:br/> or <w:tab/>, which is parsed to the empty string
TypedBreak == Obj(<<KV(K_wtype, Str(T_page))>>)
EmptyTag == Str(<<>>)

\* the runs of a paragraph: literal text; text and a page break in one run; a
\* run holding a break; a run holding a tab with an attribute; runs holding an
\* empty <w:br/> or <w:tab/>; text with xml:space="preserve" ending in a line
\* feed; text with xml:space="default"; <w:t xml:space="preserve"/> without
\* content; two w:t in one run
RunKinds == {"text", "textAndBreak", "break", "tab", "emptyBreak", "emptyTab",
             "preserved", "attributed", "contentless", "sequence"}
RunOf(kind, t) ==
    CASE kind = "text" -> Run(t)
      [] kind = "textAndBreak" -> Obj(<<KV(K_wt, Str(t)), KV(K_wbr, TypedBreak)>>)
      [] kind = "break" -> Obj(<<KV(K_wbr, TypedBreak)>>)
      [] kind = "tab" -> Obj(<<KV(K_wtab, Obj(<<KV(K_wval, Str(T_center))>>))>>)
      [] kind = "emptyBreak" -> Obj(<<KV(K_wbr, EmptyTag)>>)
      [] kind = "emptyTab" -> Obj(<<KV(K_wtab, EmptyTag)>>)
      [] kind = "preserved" ->
            Obj(<<KV(K_wt, Obj(<<KV(K_text, Str(t \o <<"\n">>)),
                                 KV(K_xmlspace, Str(S_preserve))>>))>>)
      [] kind = "attributed" ->
            Obj(<<KV(K_wt, Obj(<<KV(K_text, Str(t)),
                                 KV(K_xmlspace, Str(T_default))>>))>>)
      [] kind = "contentless" ->
            Obj(<<KV(K_wt, Obj(<<KV(K_xmlspace, Str(S_preserve))>>))>>)
      [] kind = "sequence" -> Obj(<<KV(K_wt, Arr(<<Str(t), Str(T_Hello)>>))>>)
\* <w:p> with several runs
ParaOf(runs) == Obj(<<KV(K_wr, Arr(runs))>>)

\* {w:document: {w:body: {w:tbl: ...}}}
TableBody(tbl) ==
    Obj(<<KV(K_wdocument, Obj(<<KV(K_wbody, Obj(<<KV(K_wtbl, tbl)>>))>>))>>)
Row(cells) == Obj(<<KV(K_wtc, Arr(cells))>>)

\* the cells of a table: one paragraph; a paragraph that ends in a break; a
\* paragraph whose text ends in a line feed; a table nested in the cell; a
\* paragraph (its run holding text and a break) and a nested table side by side
CellKinds == {"plain", "broken", "preserved", "nested", "both"}
CellOf(kind, t, u) ==
    CASE kind = "plain" -> Obj(<<KV(K_wp, ParaOf(<<Run(t), Run(u)>>))>>)
      [] kind = "broken" ->
            Obj(<<KV(K_wp, ParaOf(<<Run(t), RunOf("break", u)>>))>>)
      [] kind = "preserved" ->
            Obj(<<KV(K_wp, ParaOf(<<Run(t), RunOf("preserved", u)>>))>>)
      [] kind = "nested" ->
            Obj(<<KV(K_wtbl,
                     Obj(<<KV(K_wtr, Row(<<Obj(<<KV(K_wp, Para(t))>>),
                                           Obj(<<KV(K_wp, Para(u))>>)>>))>>))>>)
      [] kind = "both" ->
            Obj(<<KV(K_wp, Obj(<<KV(K_wr, RunOf("textAndBreak", t))>>)),
                  KV(K_wtbl, Obj(<<KV(K_wtr, Row(<<Obj(<<KV(K_wp, Para(u))>>),
                                                     Obj(<<KV(K_wp, Para(T_Hello))>>)>>))>>))>>)

\* documents whose elements hold several structural children, repeated tags
\* at several depths and explicit breaks
StructuredDocuments ==
    {BareDocument(<<ParaOf(<<RunOf(k1, T_introduction), RunOf(k2, T_background)>>), Para(T_methodology)>>) :
        k1 \in RunKinds, k2 \in RunKinds}
    \cup {TableBody(Obj(<<KV(K_wtr, Row(<<CellOf(c1, T_introduction, T_background),
                                           CellOf(c2, T_methodology, T_conclusions)>>))>>)) :
        c1 \in CellKinds, c2 \in CellKinds}
    \cup {TableBody(Obj(<<KV(K_wtr, Arr(<<Row(<<CellOf(c1, T_introduction, T_background),
                                                 Obj(<<KV(K_wp, Para(T_methodology))>>)>>),
                                           Row(<<Obj(<<KV(K_wp, Para(T_conclusions))>>),
                                                 CellOf(c2, T_appendices, T_references)>>)>>))>>)) :
        c1 \in CellKinds, c2 \in {"plain", "broken"}}

Documents ==
    {BareDocument(ps) : ps \in ParagraphLists}
    \cup {FullDocument(ps) : ps \in ParagraphLists}
    \cup {TableDocument(ps) : ps \in CellParagraphLists}

(***************************************************************************)
(* Specification of extractText alone                                      *)
(***************************************************************************)
WalkIdle == walkStack = <<>> /\ walkParts = <<>> /\ origins = <<>> /\ visited = <<>>
TextIdle == parsedDoc = Undefined /\ finalText = None /\ WalkIdle
MetaIdle == docxContent = <<>> /\ metadata = None
FmtIdle == fmtArgs = <<>> /\ fmtOut = None
ParseIdle ==
    /\ config = <<>> /\ file = <<>> /\ pc = "idle" /\ zip = "unopened"
    /\ reads = 0 /\ opening = {} /\ streams = <<>> /\ nEntries = 0
    /\ content = <<>> /\ promise = [state |-> "none"] /\ result = <<>>
    /\ log = <<>> /\ ctorConfig = <<>> /\ updates = <<>> /\ backups = <<>>

TextInit ==
    /\ parsedDoc \in Documents
    /\ finalText = None
    /\ WalkIdle /\ MetaIdle /\ FmtIdle /\ ParseIdle

ExtractTextCall ==
    /\ finalText = None
    /\ finalText' = Some(extractText(parsedDoc))
    /\ UNCHANGED <<parsedDoc, walkVars, metaVars, fmtVars, parseVars, hostVars>>

TextNext == ExtractTextCall

SpecText == TextInit /\ [][TextNext]_vars

(***************************************************************************)
(* The primary walk of extractText, one element at a time.  Every rule of  *)
(* extractTextFromElement ends with a return after handing its children to *)
(* the same function, so the calls still to be made form a stack: the      *)
(* children of the element just handled, in their order, before what was   *)
(* pending.  An element is known by its path, the positions (in the items  *)
(* of an array, in the entries of an object) that lead to it from the root.*)
(***************************************************************************)
Visit(node, path) == [node |-> node, path |-> path]
current == Head(walkStack)
IsElementObject(n) == Truthy(n) /\ n.kind = "object"
Has(n, key) == Truthy(Prop(n, key))

\* the position of the entry of an object that holds the key
EntryIndex(n, key) == FirstMatch({i \in 1..Len(n.entries) : n.entries[i].k = key})
\* element[key], to be handled next
ChildUnder(c, key) ==
    Visit(Prop(c.node, key), Append(c.path, EntryIndex(c.node, key)))
\* the items of an array, in their order
ItemsOf(c) ==
    [i \in 1..Len(c.node.items) |-> Visit(c.node.items[i], Append(c.path, i))]
\* the same, last item first
ItemsReversed(c) ==
    [i \in 1..Len(c.node.items) |->
        Visit(c.node.items[Len(c.node.items) + 1 - i],
                Append(c.path, Len(c.node.items) + 1 - i))]
\* the values of Object.entries(element) that the filter of lines 217-223 lets
\* through, in their order
RecursedChildren(c) ==
    LET Passes(i) == RecursedKey(c.node.entries[i].k)
        kept == SelectSeq([i \in 1..Len(c.node.entries) |-> i], Passes)
    IN  [j \in 1..Len(kept) |->
            Visit(c.node.entries[kept[j]].v, Append(c.path, kept[j]))]
\* every child but w:t
OtherChildren(c) ==
    LET Other(i) == c.node.entries[i].k # K_wt
        kept == SelectSeq([i \in 1..Len(c.node.entries) |-> i], Other)
    IN  [j \in 1..Len(kept) |->
            Visit(c.node.entries[kept[j]].v, Append(c.path, kept[j]))]

\* the element is handled by a rule, which hands over the given children and
\* leaves the given textParts
Handle(rule, children, parts) ==
    /\ walkStack # <<>>
    /\ walkStack' = children \o Tail(walkStack)
    /\ visited' = Append(visited, [path |-> current.path, rule |-> rule])
    /\ walkParts' = parts
    /\ origins' = origins \o [i \in 1..(Len(parts) - Len(walkParts)) |-> current.path]
    /\ UNCHANGED <<parsedDoc, finalText, metaVars, fmtVars, parseVars, hostVars>>

\* line 136: if (!element) return
SkipEmpty ==
    /\ walkStack # <<>> /\ ~Truthy(current.node)
    /\ Handle("empty", <<>>, walkParts)

\* lines 139-145: a string is pushed trimmed
StringRule ==
    /\ walkStack # <<>> /\ Truthy(current.node) /\ current.node.kind = "string"
    /\ LET cleanText == Trim(current.node.s) IN
       Handle("string", <<>>,
              IF cleanText # <<>> /\ ~Includes(cleanText, S_schemasMicrosoft)
              THEN Append(walkParts, cleanText) ELSE walkParts)

\* (variant: the items of an array handled last to first)
ArrayRuleReversed ==
    /\ walkStack # <<>> /\ Truthy(current.node) /\ current.node.kind = "array"
    /\ Handle("array", ItemsReversed(current), walkParts)

\* lines 148-151: element.forEach(item => extractTextFromElement(item))
ArrayRule ==
    /\ walkStack # <<>> /\ Truthy(current.node) /\ current.node.kind = "array"
    /\ Handle("array", ItemsOf(current), walkParts)

\* (variant: after the literal text the other children are walked too)
LiteralTextRuleFallThrough ==
    /\ walkStack # <<>> /\ IsElementObject(current.node) /\ Has(current.node, K_wt)
    /\ LET text == LiteralText(Prop(current.node, K_wt)) IN
       Handle("literal-text", OtherChildren(current),
              IF MeaningfulText(text) THEN Append(walkParts, text.s) ELSE walkParts)

\* lines 156-175: the literal text of w:t
LiteralTextRule ==
    /\ walkStack # <<>> /\ IsElementObject(current.node) /\ Has(current.node, K_wt)
    /\ LET text == LiteralText(Prop(current.node, K_wt)) IN
       Handle("literal-text", <<>>,
              IF MeaningfulText(text) THEN Append(walkParts, text.s) ELSE walkParts)

\* (variant: the break is pushed whatever the list holds)
ParagraphRuleAlwaysBreaks ==
    /\ walkStack # <<>> /\ IsElementObject(current.node)
    /\ ~Has(current.node, K_wt) /\ Has(current.node, K_wp)
    /\ Handle("paragraph", <<ChildUnder(current, K_wp)>>,
              Append(walkParts, <<"\n", "\n">>))

\* lines 178-184: the paragraph break, then element['w:p']
ParagraphRule ==
    /\ walkStack # <<>> /\ IsElementObject(current.node)
    /\ ~Has(current.node, K_wt) /\ Has(current.node, K_wp)
    /\ Handle("paragraph", <<ChildUnder(current, K_wp)>>, ParagraphBreak(walkParts))

\* lines 187-190: element['w:r']
RunRule ==
    /\ walkStack # <<>> /\ IsElementObject(current.node)
    /\ ~Has(current.node, K_wt) /\ ~Has(current.node, K_wp)
    /\ Has(current.node, K_wr)
    /\ Handle("run", <<ChildUnder(current, K_wr)>>, walkParts)

\* lines 193-196: a tab
TabRule ==
    /\ walkStack # <<>> /\ IsElementObject(current.node)
    /\ ~Has(current.node, K_wt) /\ ~Has(current.node, K_wp)
    /\ ~Has(current.node, K_wr) /\ Has(current.node, K_wtab)
    /\ Handle("tab", <<>>, Append(walkParts, <<"\t">>))

\* lines 199-202: a line break
LineBreakRule ==
    /\ walkStack # <<>> /\ IsElementObject(current.node)
    /\ ~Has(current.node, K_wt) /\ ~Has(current.node, K_wp)
    /\ ~Has(current.node, K_wr) /\ ~Has(current.node, K_wtab)
    /\ Has(current.node, K_wbr)
    /\ Handle("line-break", <<>>, Append(walkParts, <<"\n">>))

\* lines 205-208: element['w:document']
DocumentRule ==
    /\ walkStack # <<>> /\ IsElementObject(current.node)
    /\ ~Has(current.node, K_wt) /\ ~Has(current.node, K_wp)
    /\ ~Has(current.node, K_wr) /\ ~Has(current.node, K_wtab)
    /\ ~Has(current.node, K_wbr) /\ Has(current.node, K_wdocument)
    /\ Handle("document-root", <<ChildUnder(current, K_wdocument)>>, walkParts)

\* lines 210-213: element['w:body']
BodyRule ==
    /\ walkStack # <<>> /\ IsElementObject(current.node)
    /\ ~Has(current.node, K_wt) /\ ~Has(current.node, K_wp)
    /\ ~Has(current.node, K_wr) /\ ~Has(current.node, K_wtab)
    /\ ~Has(current.node, K_wbr) /\ ~Has(current.node, K_wdocument)
    /\ Has(current.node, K_wbody)
    /\ Handle("body", <<ChildUnder(current, K_wbody)>>, walkParts)

\* lines 216-225: the other Word elements
GenericRule ==
    /\ walkStack # <<>> /\ IsElementObject(current.node)
    /\ ~Has(current.node, K_wt) /\ ~Has(current.node, K_wp)
    /\ ~Has(current.node, K_wr) /\ ~Has(current.node, K_wtab)
    /\ ~Has(current.node, K_wbr) /\ ~Has(current.node, K_wdocument)
    /\ ~Has(current.node, K_wbody)
    /\ Handle("generic", RecursedChildren(current), walkParts)

\* lines 233-255: the clean-up of the joined fragments and the fallback
FinishedText(doc, parts) ==
    LET primary == NormalizeText(Join(parts, <<" ">>)) IN
    IF primary = <<>> \/ Len(primary) < FallbackThreshold
    THEN LET fallbackText == extractTextFallback(doc) IN
         IF fallbackText # <<>> /\ Len(fallbackText) > Len(primary)
         THEN fallbackText
         ELSE primary
    ELSE primary

\* line 230 has returned: extractText finishes
FinishWalk ==
    /\ walkStack = <<>> /\ finalText = None
    /\ finalText' = Some(FinishedText(parsedDoc, walkParts))
    /\ UNCHANGED <<parsedDoc, walkVars, metaVars, fmtVars, parseVars, hostVars>>

WalkDocuments ==
    StructuredDocuments
    \cup {BareDocument(ps) : ps \in CellParagraphLists}

\* line 230: extractTextFromElement(parsedDoc)
WalkInit ==
    /\ parsedDoc \in WalkDocuments
    /\ finalText = None
    /\ walkStack = <<Visit(parsedDoc, <<>>)>>
    /\ walkParts = <<>> /\ origins = <<>> /\ visited = <<>>
    /\ MetaIdle /\ FmtIdle /\ ParseIdle

WalkNext ==
    \/ SkipEmpty \/ StringRule \/ ArrayRule \/ LiteralTextRule \/ ParagraphRule
    \/ RunRule \/ TabRule \/ LineBreakRule \/ DocumentRule \/ BodyRule
    \/ GenericRule \/ FinishWalk

SpecWalk == WalkInit /\ [][WalkNext]_vars

(***************************************************************************)
(* extractMetadata                                                         *)
(* A raw part is '' (empty), text the XML parser rejects (malformed), or   *)
(* text it parses to a tree.  docxContent maps part names to raw parts.    *)
(***************************************************************************)
N_documentXml ==
    <<"w","o","r","d","/","d","o","c","u","m","e","n","t",".","x","m","l">>
N_coreXml == <<"d","o","c","P","r","o","p","s","/","c","o","r","e",".","x","m","l">>
N_appXml == <<"d","o","c","P","r","o","p","s","/","a","p","p",".","x","m","l">>

EmptyPart == [kind |-> "empty"]
MalformedPart == [kind |-> "malformed"]
XmlPart(tree) == [kind |-> "xml", tree |-> tree]

\* docxContent[name], <<>> when the mapping has no such part
PartOf(docx, name) == IF name \in DOMAIN docx THEN Some(docx[name]) ELSE None
\* if (coreProps): the part is there and is not the empty string
PartTruthy(part) == part # None /\ part[1].kind # "empty"

K_coreProperties ==
    <<"c","p",":","c","o","r","e","P","r","o","p","e","r","t","i","e","s">>
K_dctitle == <<"d","c",":","t","i","t","l","e">>
K_dccreator == <<"d","c",":","c","r","e","a","t","o","r">>
K_dcsubject == <<"d","c",":","s","u","b","j","e","c","t">>
K_dctermscreated == <<"d","c","t","e","r","m","s",":","c","r","e","a","t","e","d">>
K_dctermsmodified == <<"d","c","t","e","r","m","s",":","m","o","d","i","f","i","e","d">>
K_Properties == <<"P","r","o","p","e","r","t","i","e","s">>
K_Pages == <<"P","a","g","e","s">>
K_Words == <<"W","o","r","d","s">>
K_Characters == <<"C","h","a","r","a","c","t","e","r","s">>
S_objectObject == <<"[","o","b","j","e","c","t"," ","O","b","j","e","c","t","]">>

\* numbers: a number value or NaN
Num(v) == [type |-> "number", v |-> v]
NaN == [type |-> "NaN"]

DecimalDigits == <<"0","1","2","3","4","5","6","7","8","9">>
HexDigits == <<"0","1","2","3","4","5","6","7","8","9","a","b","c","d","e","f">>
HexDigitsUpper == <<"0","1","2","3","4","5","6","7","8","9","A","B","C","D","E","F">>
IndexIn(digits, c) == CHOOSE i \in 1..Len(digits) : digits[i] = c
DigitValue(c) ==
    IF \E i \in 1..Len(HexDigits) : HexDigits[i] = c
    THEN IndexIn(HexDigits, c) - 1
    ELSE IndexIn(HexDigitsUpper, c) - 1
RadixDigits(radix) ==
    IF radix = 16
    THEN {HexDigits[i] : i \in 1..16} \cup {HexDigitsUpper[i] : i \in 1..16}
    ELSE {DecimalDigits[i] : i \in 1..10}
RECURSIVE DigitsValue(_, _)
DigitsValue(z, radix) ==
    IF z = <<>> THEN 0
    ELSE DigitsValue(SubStr(z, 1, Len(z) - 1), radix) * radix + DigitValue(z[Len(z)])

\* parseInt(string) with no radix argument
ParseIntString(str) ==
    LET s0 == TrimLeft(str)
        negative == s0 # <<>> /\ s0[1] = "-"
        s1 == IF s0 # <<>> /\ s0[1] \in {"+", "-"} THEN Tail(s0) ELSE s0
        hex == Len(s1) >= 2 /\ s1[1] = "0" /\ s1[2] \in {"x", "X"}
        radix == IF hex THEN 16 ELSE 10
        s2 == IF hex THEN Drop(s1, 2) ELSE s1
        z == SubStr(s2, 1, RunLen(s2, RadixDigits(radix)))
    IN  IF z = <<>> THEN NaN
        ELSE Num((IF negative THEN -1 ELSE 1) * DigitsValue(z, radix))

\* String(value) of a node, as parseInt applies it to its argument
RECURSIVE ToStringNode(_)
RECURSIVE ToStringItems(_)
ToStringItems(items) ==
    IF items = <<>> THEN <<>>
    ELSE <<IF items[1].kind = "undefined" THEN <<>> ELSE ToStringNode(items[1])>>
         \o ToStringItems(Tail(items))
ToStringNode(n) ==
    IF n.kind = "string" THEN n.s
    ELSE IF n.kind = "array" THEN Join(ToStringItems(n.items), <<",">>)
    ELSE IF n.kind = "object" THEN S_objectObject
    ELSE <<"u","n","d","e","f","i","n","e","d">>

parseInt(n) == ParseIntString(ToStringNode(n))

\* a property assigned from a node: undefined leaves the field absent
FieldOf(n) == IF n.kind = "undefined" THEN None ELSE Some(n)
\* new Date(value)
DateOf(n) == [type |-> "Date", from |-> n]

EmptyMetadata ==
    [title |-> None, author |-> None, subject |-> None, created |-> None,
     modified |-> None, pages |-> None, words |-> None, characters |-> None]

\* parsed[key] || {}
PropsOf(parsed, key) ==
    IF Truthy(Prop(parsed, key)) THEN Prop(parsed, key) ELSE Obj(<<>>)

\* lines 285-295: the core properties, applied to the metadata so far
CoreFields(md, parsed) ==
    LET props == PropsOf(parsed, K_coreProperties) IN
    [md EXCEPT !.title = FieldOf(Prop(props, K_dctitle)),
               !.author = FieldOf(Prop(props, K_dccreator)),
               !.subject = FieldOf(Prop(props, K_dcsubject)),
               !.created = IF Truthy(Prop(props, K_dctermscreated))
                           THEN Some(DateOf(Prop(props, K_dctermscreated))) ELSE @,
               !.modified = IF Truthy(Prop(props, K_dctermsmodified))
                            THEN Some(DateOf(Prop(props, K_dctermsmodified))) ELSE @]

\* lines 303-305: one count of the application properties
CountField(props, key, old) ==
    IF Truthy(Prop(props, key)) THEN Some(parseInt(Prop(props, key))) ELSE old

\* lines 298-306: the application properties
AppFields(md, parsed) ==
    LET props == PropsOf(parsed, K_Properties) IN
    [md EXCEPT !.pages = CountField(props, K_Pages, @),
               !.words = CountField(props, K_Words, @),
               !.characters = CountField(props, K_Characters, @)]

\* extractMetadata(docxContent): one try block around both parts, so a parse
\* failure returns the metadata filled in so far
extractMetadata(docx) ==
    LET coreProps == PartOf(docx, N_coreXml)
        appProps == PartOf(docx, N_appXml)
        coreThrows == PartTruthy(coreProps) /\ coreProps[1].kind = "malformed"
        afterCore == IF PartTruthy(coreProps) /\ ~coreThrows
                     THEN CoreFields(EmptyMetadata, coreProps[1].tree)
                     ELSE EmptyMetadata
        appThrows == PartTruthy(appProps) /\ appProps[1].kind = "malformed"
    IN  IF coreThrows THEN EmptyMetadata
        ELSE IF PartTruthy(appProps) /\ ~appThrows
             THEN AppFields(afterCore, appProps[1].tree)
        ELSE afterCore


(***************************************************************************)
(* Specification of extractMetadata alone                                  *)
(***************************************************************************)
T_Report == <<"R","e","p","o","r","t">>
T_Ann == <<"A","n","n">>
T_Plan == <<"P","l","a","n">>
T_2024_01_02 == <<"2","0","2","4","-","0","1","-","0","2">>
T_soon == <<"s","o","o","n">>
V_12 == <<"1","2">>
V_abc == <<"a","b","c">>
V_0 == <<"0">>
V_12abc == <<"1","2","a","b","c">>
V_sp7 == <<" ","7">>
V_neg3 == <<"-","3">>
V_0x1A == <<"0","x","1","A">>
K_xsitype == <<"x","s","i",":","t","y","p","e">>

\* docProps/core.xml as parsed: <cp:coreProperties> with the given children
CoreTree(entries) == Obj(<<KV(K_coreProperties, Obj(entries))>>)
CoreParts ==
    {MalformedPart,
     XmlPart(CoreTree(<<KV(K_dctitle, Str(T_Report))>>)),
     XmlPart(CoreTree(<<KV(K_dctitle, Str(T_Report)), KV(K_dccreator, Str(T_Ann)),
                        KV(K_dcsubject, Str(T_Plan)),
                        KV(K_dctermscreated, Str(T_2024_01_02)),
                        KV(K_dctermsmodified, Str(T_soon))>>)),
     XmlPart(Obj(<<>>))}

\* the values of a count element: text, the empty element, an element with an
\* attribute
CountValues ==
    {Str(v) : v \in {V_12, V_abc, V_0, V_12abc, V_sp7, V_neg3, V_0x1A, <<>>}}
    \cup {Obj(<<KV(K_text, Str(V_12)), KV(K_xsitype, Str(T_Plan))>>)}
CountChoices == {None} \cup {Some(v) : v \in CountValues}
CountEntry(key, choice) == IF choice = None THEN <<>> ELSE <<KV(key, choice[1])>>
\* docProps/app.xml as parsed: <Properties> with the chosen counts
AppTree(pages, words, characters) ==
    Obj(<<KV(K_Properties,
             Obj(CountEntry(K_Pages, pages) \o CountEntry(K_Words, words)
                 \o CountEntry(K_Characters, characters)))>>)
AppParts ==
    {MalformedPart}
    \cup {XmlPart(AppTree(p, w, c)) : p \in CountChoices, w \in CountChoices,
                                      c \in CountChoices}

\* a part mapping with the chosen auxiliary parts
WithParts(core, app) ==
    [n \in (IF core = None THEN {} ELSE {N_coreXml})
            \cup (IF app = None THEN {} ELSE {N_appXml})
       |-> IF n = N_coreXml THEN core[1] ELSE app[1]]

MetaInit ==
    /\ \E core \in {None} \cup {Some(c) : c \in CoreParts},
          app \in {None} \cup {Some(a) : a \in AppParts} :
          docxContent = WithParts(core, app)
    /\ metadata = None
    /\ TextIdle /\ FmtIdle /\ ParseIdle

ExtractMetadataCall ==
    /\ metadata = None
    /\ metadata' = Some(extractMetadata(docxContent))
    /\ UNCHANGED <<docxContent, textVars, fmtVars, parseVars, hostVars>>

MetaNext == ExtractMetadataCall

SpecMeta == MetaInit /\ [][MetaNext]_vars

(***************************************************************************)
(* convertToFormat: the json, text and default cases                       *)
(* The text JSON.stringify returns is represented by the value it denotes: *)
(* an object is the sequence of its members as written.                    *)
(***************************************************************************)
F_json == <<"j","s","o","n">>
F_JSON == <<"J","S","O","N">>
F_text == <<"t","e","x","t">>
F_xml == <<"x","m","l">>
F_markdown == <<"m","a","r","k","d","o","w","n">>
F_html == <<"h","t","m","l">>

UpperLetters == <<"A","B","C","D","E","F","G","H","I","J","K","L","M",
                  "N","O","P","Q","R","S","T","U","V","W","X","Y","Z">>
LowerLetters == <<"a","b","c","d","e","f","g","h","i","j","k","l","m",
                  "n","o","p","q","r","s","t","u","v","w","x","y","z">>
\* String.prototype.toLowerCase
ToLowerCase(s) ==
    [i \in 1..Len(s) |-> IF s[i] \in Upper THEN LowerLetters[IndexIn(UpperLetters, s[i])]
                         ELSE s[i]]

JsonString(s) == [json |-> "string", s |-> s]
JsonNumber(v) == [json |-> "number", v |-> v]
JsonNull == [json |-> "null"]
JsonObject(members) == [json |-> "object", members |-> members]
JsonArray(items) == [json |-> "array", items |-> items]
Member(k, v) == [k |-> k, v |-> v]

\* the date strings new Date() understands, and Date.prototype.toISOString
ValidDates == {<<"2","0","2","4","-","0","1","-","0","2">>}
ToISOString(s) == s \o <<"T","0","0",":","0","0",":","0","0",".","0","0","0","Z">>

\* JSON.stringify of a parsed node (strings, arrays, objects)
RECURSIVE JsonOfNode(_)
RECURSIVE JsonOfItems(_)
RECURSIVE JsonOfEntries(_)
JsonOfItems(items) ==
    IF items = <<>> THEN <<>>
    ELSE <<IF items[1].kind = "undefined" THEN JsonNull ELSE JsonOfNode(items[1])>>
         \o JsonOfItems(Tail(items))
JsonOfEntries(entries) ==
    IF entries = <<>> THEN <<>>
    ELSE (IF entries[1].v.kind = "undefined" THEN <<>>
          ELSE <<Member(entries[1].k, JsonOfNode(entries[1].v))>>)
         \o JsonOfEntries(Tail(entries))
JsonOfNode(n) ==
    IF n.kind = "string" THEN JsonString(n.s)
    ELSE IF n.kind = "array" THEN JsonArray(JsonOfItems(n.items))
    ELSE JsonObject(JsonOfEntries(n.entries))

\* JSON.stringify of a Date and of a number
JsonOfDate(d) ==
    IF d.from.kind = "string" /\ d.from.s \in ValidDates
    THEN JsonString(ToISOString(d.from.s)) ELSE JsonNull
JsonOfNumber(x) == IF x = NaN THEN JsonNull ELSE JsonNumber(x.v)

\* a member of an object being serialized: a property whose value is
\* undefined is left out
JsonMember(k, option, json) ==
    IF option = None THEN <<>> ELSE <<Member(k, json)>>

\* JSON.stringify of a DocumentMetadata
JsonOfMetadata(md) ==
    JsonObject(
        JsonMember("title", md.title, JsonOfNode(md.title[1]))
        \o JsonMember("author", md.author, JsonOfNode(md.author[1]))
        \o JsonMember("subject", md.subject, JsonOfNode(md.subject[1]))
        \o JsonMember("created", md.created, JsonOfDate(md.created[1]))
        \o JsonMember("modified", md.modified, JsonOfDate(md.modified[1]))
        \o JsonMember("pages", md.pages, JsonOfNumber(md.pages[1]))
        \o JsonMember("words", md.words, JsonOfNumber(md.words[1]))
        \o JsonMember("characters", md.characters, JsonOfNumber(md.characters[1])))

\* lines 347-352: JSON.stringify({content, metadata, format: 'json', timestamp})
JsonOutput(text, md, now) ==
    JsonObject(
        <<Member("content", JsonString(text))>>
        \o JsonMember("metadata", md, JsonOfMetadata(md[1]))
        \o <<Member("format", JsonString(F_json)),
             Member("timestamp", JsonString(ToISOString(now)))>>)

\* s.replace(/c/g, rep): every occurrence of the character c becomes rep
RECURSIVE ReplaceChar(_, _, _)
ReplaceChar(s, c, rep) ==
    LET m == FirstMatch({i \in 1..Len(s) : s[i] = c}) IN
    IF m = 0 THEN s
    ELSE SubStr(s, 1, m - 1) \o rep \o ReplaceChar(Drop(s, m), c, rep)

\* s.split('\n')
RECURSIVE SplitLines(_)
SplitLines(s) ==
    LET m == FirstMatch({i \in 1..Len(s) : s[i] = "\n"}) IN
    IF m = 0 THEN <<s>>
    ELSE <<SubStr(s, 1, m - 1)>> \o SplitLines(Drop(s, m))

E_amp == <<"&","a","m","p",";">>
E_lt == <<"&","l","t",";">>
E_gt == <<"&","g","t",";">>
E_quot == <<"&","q","u","o","t",";">>
E_apos == <<"&","#","3","9",";">>

\* the five replacements with the ampersand handled last
escapeHtmlAmpersandLast(text) ==
    ReplaceChar(
        ReplaceChar(
            ReplaceChar(
                ReplaceChar(ReplaceChar(text, "<", E_lt), ">", E_gt),
                "\"", E_quot),
            "'", E_apos),
        "&", E_amp)

\* lines 428-435: escapeHtml, the five replacements in the order of the code
escapeHtml(text) ==
    ReplaceChar(
        ReplaceChar(
            ReplaceChar(
                ReplaceChar(ReplaceChar(text, "&", E_amp), "<", E_lt),
                ">", E_gt),
            "\"", E_quot),
        "'", E_apos)

\* metadata?.title when it is truthy
TitleOf(md) ==
    IF md # None /\ md[1].title # None /\ Truthy(md[1].title[1])
    THEN Some(md[1].title[1].s) ELSE None

\* line 419: content.split('\n').filter(p => p.trim())
NonBlank(p) == Trim(p) # <<>>
NonBlankLines(text) == SelectSeq(SplitLines(text), NonBlank)

H_head == <<"<","!","D","O","C","T","Y","P","E"," ","h","t","m","l",">","\n","<","h","t","m","l",">","\n","<","h","e","a","d",">","\n","<","m","e","t","a"," ","c","h","a","r","s","e","t","=","\"","u","t","f","-","8","\"",">","\n">>
H_body == <<"<","/","h","e","a","d",">","\n","<","b","o","d","y",">","\n">>
H_end == <<"<","/","b","o","d","y",">","\n","<","/","h","t","m","l",">">>
H_title == <<"<","t","i","t","l","e",">">>
H_titleEnd == <<"<","/","t","i","t","l","e",">","\n">>
H_h1 == <<"<","h","1",">">>
H_h1End == <<"<","/","h","1",">","\n">>
H_p == <<"<","p",">">>
H_pEnd == <<"<","/","p",">","\n">>

RECURSIVE HtmlParagraphs(_)
HtmlParagraphs(paragraphs) ==
    IF paragraphs = <<>> THEN <<>>
    ELSE H_p \o escapeHtml(paragraphs[1]) \o H_pEnd \o HtmlParagraphs(Tail(paragraphs))

\* lines 404-426: convertToHtml
convertToHtml(text, md) ==
    LET title == TitleOf(md) IN
    H_head
    \o (IF title # None THEN H_title \o escapeHtml(title[1]) \o H_titleEnd ELSE <<>>)
    \o H_body
    \o (IF title # None THEN H_h1 \o escapeHtml(title[1]) \o H_h1End ELSE <<>>)
    \o HtmlParagraphs(NonBlankLines(text))
    \o H_end

\* metadata?.author when it is truthy
AuthorOf(md) ==
    IF md # None /\ md[1].author # None /\ Truthy(md[1].author[1])
    THEN Some(md[1].author[1].s) ELSE None

SentenceEnd == {".", "!", "?"}
HeaderLimit == 50
ParagraphLimit == 200
M_title == <<"#"," ">>
M_author == <<"*","*","A","u","t","h","o","r",":","*","*"," ">>
M_header == <<"#","#"," ">>
M_break == <<"\n","\n">>

\* line 371: content.split(/(?<=[.!?])\s+/), a run of white space that follows
\* a sentence end separates two pieces
RECURSIVE SplitSentences(_)
SplitSentences(s) ==
    LET m == FirstMatch({i \in 2..Len(s) : s[i] \in WhiteSpace
                                           /\ s[i - 1] \in SentenceEnd})
        rest == Drop(s, m - 1)
    IN  IF m = 0 THEN <<s>>
        ELSE <<SubStr(s, 1, m - 1)>> \o SplitSentences(Drop(rest, RunLen(rest, WhiteSpace)))

\* line 379: /^[A-Z][a-z]*\s*[A-Z]/.test(s)
LooksLikeHeader(s) ==
    /\ s # <<>> /\ s[1] \in Upper
    /\ LET a == RunLen(Drop(s, 1), Lower)
           b == RunLen(Drop(s, 1 + a), WhiteSpace)
       IN  2 + a + b <= Len(s) /\ s[2 + a + b] \in Upper
IsHeader(cleanSentence) ==
    Len(cleanSentence) < HeaderLimit /\ LooksLikeHeader(cleanSentence)

\* the state of the loop: the output so far and the paragraph buffer
Rendering(markdown, currentParagraph) ==
    [markdown |-> markdown, currentParagraph |-> currentParagraph]

\* a header emitted with the buffered paragraph thrown away
HeaderStepUnflushed(r, cleanSentence) ==
    Rendering(r.markdown \o M_header \o cleanSentence \o M_break, <<>>)

\* lines 380-384: the buffered paragraph, then the header
HeaderStep(r, cleanSentence) ==
    Rendering(
        (IF r.currentParagraph # <<>>
         THEN r.markdown \o Trim(r.currentParagraph) \o M_break ELSE r.markdown)
        \o M_header \o cleanSentence \o M_break,
        <<>>)

\* lines 386-392: the sentence joins the buffer, which is flushed when long
ParagraphStep(r, cleanSentence) ==
    LET buffer == r.currentParagraph \o cleanSentence \o <<" ">> IN
    IF Len(buffer) > ParagraphLimit
    THEN Rendering(r.markdown \o Trim(buffer) \o M_break, <<>>)
    ELSE Rendering(r.markdown, buffer)

\* lines 374-394: the loop over the sentences
RECURSIVE MarkdownLoop(_, _)
MarkdownLoop(sentences, r) ==
    IF sentences = <<>> THEN r
    ELSE LET cleanSentence == Trim(sentences[1]) IN
         MarkdownLoop(Tail(sentences),
                      IF cleanSentence = <<>> THEN r
                      ELSE IF IsHeader(cleanSentence) THEN HeaderStep(r, cleanSentence)
                      ELSE ParagraphStep(r, cleanSentence))

\* lines 359-402: convertToMarkdown
convertToMarkdown(text, md) ==
    LET title == TitleOf(md)
        author == AuthorOf(md)
        start == (IF title # None THEN M_title \o title[1] \o M_break ELSE <<>>)
                 \o (IF author # None THEN M_author \o author[1] \o M_break ELSE <<>>)
        r == MarkdownLoop(SplitSentences(text), Rendering(start, <<>>))
    IN  Trim(IF Trim(r.currentParagraph) # <<>>
             THEN r.markdown \o Trim(r.currentParagraph) \o M_break
             ELSE r.markdown)

\* lines 340-357: convertToFormat(content, format, metadata) at the time now
convertToFormat(text, format, md, now) ==
    CASE ToLowerCase(format) = F_markdown -> convertToMarkdown(text, md)
      [] ToLowerCase(format) = F_html -> convertToHtml(text, md)
      [] ToLowerCase(format) = F_json -> JsonOutput(text, md, now)
      [] OTHER -> text

(***************************************************************************)
(* Specification of convertToFormat alone                                  *)
(***************************************************************************)
T_FirstSecond == <<"F","i","r","s","t"," ","S","e","c","o","n","d">>
T_Lines == <<"a","&","b","\n","\n"," ","<","c",">","\n">>
T_Quoted == <<"\"","x","'","\n"," ","\t","\n","&","l","t",";">>
T_RnD == <<"R","&","D"," ","<","1",">">>
F_HTML == <<"H","T","M","L">>
\* a sentence of n characters that begins with the given words and ends in a
\* full stop
Filled(words, n) == words \o [i \in 1..(n - Len(words) - 1) |-> "x"] \o <<".">>
W_AnnualReport == <<"A","n","n","u","a","l"," ","R","e","p","o","r","t"," ">>
W_BigNews == <<"B","i","g"," ","N","e","w","s"," ">>
W_the == <<"t","h","e"," ">>
T_ItWorks == <<"i","t"," ","w","o","r","k","s",".">>
T_TailEnd == <<"t","a","i","l"," ","e","n","d","!">>
S_Header30 == Filled(W_AnnualReport, 30)
S_Header49 == Filled(W_BigNews, 49)
S_Plain50 == Filled(W_BigNews, 50)
S_Long250 == Filled(W_the, 250)
SentenceTexts ==
    {S_Header30 \o <<" ">> \o S_Long250,
     T_ItWorks \o <<" ">> \o S_Header30 \o <<" ", " ", "\n">> \o T_TailEnd
         \o <<" ">> \o T_ItWorks,
     Filled(W_the, 150) \o <<" ">> \o Filled(W_the, 60) \o <<"\n">> \o T_TailEnd,
     Filled(W_the, 199) \o <<" ">> \o S_Header49,
     Filled(W_the, 200) \o <<" ">> \o T_ItWorks,
     S_Plain50 \o <<" ">> \o S_Header49 \o <<" ">>}
FormatTexts == {<<>>, T_Hello, T_FirstSecond, T_Spaced, T_Lines, T_Quoted}
               \cup SentenceTexts
F_Markdown == <<"M","a","r","k","d","o","w","n">>
FormatNames == {F_json, F_JSON, F_text, F_xml, F_html, F_HTML, F_markdown, F_Markdown}
Instants == {<<"2","0","2","4","-","0","1","-","0","2">>,
             <<"2","0","2","6","-","1","1","-","0","5">>}
\* the metadata argument: left out, or what extractMetadata returned
MetadataArguments ==
    {None, Some(EmptyMetadata),
     Some(extractMetadata(WithParts(
         Some(XmlPart(CoreTree(<<KV(K_dctitle, Str(T_RnD))>>))), None)))}
    \cup {Some(extractMetadata(WithParts(Some(core), Some(app)))) :
            core \in CoreParts \ {MalformedPart},
            app \in {XmlPart(AppTree(Some(Str(V_12)), None, None)),
                     XmlPart(AppTree(Some(Str(V_abc)), Some(Str(V_0)), None))}}

FmtInit ==
    /\ fmtArgs \in [content : FormatTexts, format : FormatNames,
                    metadata : MetadataArguments]
    /\ fmtOut = None
    /\ TextIdle /\ MetaIdle /\ ParseIdle

ConvertToFormatCall(now) ==
    /\ fmtOut = None
    /\ fmtOut' = Some(convertToFormat(fmtArgs.content, fmtArgs.format,
                                      fmtArgs.metadata, now))
    /\ UNCHANGED <<fmtArgs, textVars, metaVars, parseVars, hostVars>>

FmtNext == \E now \in Instants : ConvertToFormatCall(now)

SpecFmt == FmtInit /\ [][FmtNext]_vars

(***************************************************************************)
(* SafetyManager.validateFile                                              *)
(* A message is the template literal it was built from and the texts       *)
(* substituted into it.                                                    *)
(***************************************************************************)
Message(text, args) == [text |-> text, args |-> args]

\* String(n) for n >= 0
RECURSIVE ToDecimal(_)
ToDecimal(n) ==
    IF n < 10 THEN <<DecimalDigits[n + 1]>>
    ELSE ToDecimal(n \div 10) \o <<DecimalDigits[(n % 10) + 1]>>

MaxFileSize == 104857600
X_docx == <<".","d","o","c","x">>
X_doc == <<".","d","o","c">>
X_rtf == <<".","r","t","f">>
X_odt == <<".","o","d","t">>
AllowedExtensions == {X_docx, X_doc, X_rtf, X_odt}

\* lines 24-69 of the safety manager; file is what the fs calls observe:
\* [exists, ext, size, readError, suspicious]
validateFile(f) ==
    LET ext == ToLowerCase(f.ext)
        i1 == IF ext \in AllowedExtensions THEN <<>>
              ELSE <<Message("Unsupported file extension: ${ext}", <<ext>>)>>
        i2 == IF f.size > MaxFileSize
              THEN Append(i1, Message(
                       "File too large: ${fileSize} bytes (max: ${this.maxFileSize})",
                       <<ToDecimal(f.size), ToDecimal(MaxFileSize)>>))
              ELSE i1
        i3 == IF f.suspicious
              THEN Append(i2, Message("Potential security risk detected", <<>>))
              ELSE i2
    IN  IF ~f.exists
        THEN [isSafe |-> FALSE,
              issues |-> <<Message("File does not exist", <<>>)>>]
        ELSE IF f.readError # None
        THEN [isSafe |-> FALSE,
              issues |-> Append(i2, Message("Validation error: ${error.message}",
                                            <<f.readError[1]>>))]
        ELSE [isSafe |-> Len(i3) = 0, issues |-> i3]

(***************************************************************************)
(* parseDocument and extractDocxContent                                    *)
(* The archive of the file is the sequence of its entries, in the order    *)
(* yauzl emits them, and at most one fault: the central directory cannot   *)
(* be read past some entry, or one entry's read stream cannot be opened,   *)
(* or one entry's read stream fails while it is being read.                *)
(***************************************************************************)
NoPromise == [state |-> "none"]
Pending == [state |-> "pending"]
Fulfilled(value) == [state |-> "fulfilled", value |-> value]
Rejected(reason) == [state |-> "rejected", reason |-> reason]
\* resolve(...) and reject(...): only the first call settles the promise
Settle(p, outcome) == IF p.state = "pending" THEN outcome ELSE p

BinaryPart == [kind |-> "binary"]
Entry(fileName, data) == [fileName |-> fileName, data |-> data]
NoFault == [kind |-> "none", at |-> 0]
Fault(kind, at) == [kind |-> kind, at |-> at]

\* line 93: /\/$/.test(entry.fileName)
IsDirectory(e) == EndsWith(e.fileName, <<"/">>)

\* the 'data' events of an entry's read stream: none for empty data
ChunksOf(e) == IF e.data = EmptyPart THEN <<>> ELSE <<e.data>>
\* line 112: Buffer.concat(chunks).toString('utf8')
Concat(chunks) == IF chunks = <<>> THEN EmptyPart ELSE chunks[1]

\* line 112: content[entry.fileName] = ...; a new key goes last
IndexOfPart(parts, fileName) ==
    FirstMatch({i \in 1..Len(parts) : parts[i].fileName = fileName})
StoreEntry(parts, fileName, data) ==
    IF IndexOfPart(parts, fileName) = 0 THEN Append(parts, Entry(fileName, data))
    ELSE [parts EXCEPT ![IndexOfPart(parts, fileName)].data = data]

\* the part mapping as extractMetadata reads it
AsMapping(parts) ==
    [n \in {parts[i].fileName : i \in 1..Len(parts)} |->
        parts[IndexOfPart(parts, n)].data]

\* the error yauzl.open reports, <<>> when the file opens
OpenError(f) ==
    IF ~f.exists THEN Some(<<"E","N","O","E","N","T">>)
    ELSE IF f.readError # None THEN f.readError
    ELSE f.zipError

\* lines 31-35, 42, 54, 60, 64, 69, 72-73, 76: the updates of result
NewResult ==
    [success |-> FALSE, warnings |-> <<>>, errors |-> <<>>, content |-> None,
     metadata |-> None, images |-> None, processingTime |-> None]
\* (variant of line 42 that leaves errors as they are)
SurfaceIssuesDropped(res, issues) == res
SurfaceIssues(res, issues) == [res EXCEPT !.errors = issues]
MissingDocument(res) ==
    [res EXCEPT !.errors =
        Append(@, Message("Invalid DOCX: Missing document.xml", <<>>))]
ParsingFailed(res, message) ==
    [res EXCEPT !.errors =
        Append(@, Message("Parsing failed: ${error.message}", <<message>>))]
\* (variant of lines 72-73 that leaves success as it is)
SucceededDropped(res) == res
Succeeded(res) ==
    [res EXCEPT !.success = TRUE, !.processingTime = Some("elapsed")]

\* lines 315-338: extractImages
N_wordMedia == <<"w","o","r","d","/","m","e","d","i","a","/">>
ImageExtensions ==
    {<<".","p","n","g">>, <<".","j","p","g">>, <<".","j","p","e","g">>,
     <<".","g","i","f">>, <<".","b","m","p">>}
IsImageFile(fileName) ==
    /\ StartsWith(fileName, N_wordMedia)
    /\ \E x \in ImageExtensions : EndsWith(ToLowerCase(fileName), x)
RECURSIVE extractImages(_)
extractImages(parts) ==
    IF parts = <<>> THEN <<>>
    ELSE (IF IsImageFile(parts[1].fileName) /\ parts[1].data # EmptyPart
          THEN <<[base64 |-> parts[1].data]>> ELSE <<>>)
         \o extractImages(Tail(parts))

\* lines 11-27: the constructor lays the given options over the defaults
DefaultConfig ==
    [extractImages |-> Bool(FALSE), preserveFormatting |-> Bool(TRUE),
     includeMetadata |-> Bool(TRUE), outputFormat |-> Str(F_text),
     safetyChecks |-> Bool(TRUE)]
WordParserConstructor(given) ==
    [k \in DOMAIN DefaultConfig |->
        IF k \in DOMAIN given THEN given[k] ELSE DefaultConfig[k]]

(***************************************************************************)
(* The files and configurations of the parseDocument specification         *)
(***************************************************************************)
MaxEntries == 2

N_wordDir == <<"w","o","r","d","/">>
N_image == <<"w","o","r","d","/","m","e","d","i","a","/","a",".","P","N","G">>
X_DOCX == <<".","D","O","C","X">>
X_txt == <<".","t","x","t">>
E_EACCES == <<"E","A","C","C","E","S">>
E_notZip == <<"n","o","t"," ","a"," ","z","i","p">>
E_stream == <<"s","t","r","e","a","m">>
E_directory == <<"d","i","r","e","c","t","o","r","y">>
E_xml == <<"x","m","l">>

DocumentPart == XmlPart(FullDocument(<<Para(T_First), Para(T_Second)>>))
AppPart == XmlPart(AppTree(Some(Str(V_12)), None, None))

EntryKinds ==
    {Entry(N_wordDir, EmptyPart),
     Entry(N_documentXml, DocumentPart),
     Entry(N_documentXml, MalformedPart),
     Entry(N_documentXml, EmptyPart),
     Entry(N_appXml, AppPart),
     Entry(N_image, BinaryPart)}

Archives == UNION {[1..n -> EntryKinds] : n \in 0..MaxEntries}

FaultsOf(entries) ==
    {NoFault}
    \cup {Fault("archive", i) : i \in 1..(Len(entries) + 1)}
    \cup {Fault(k, i) : k \in {"openReadStream", "readStream"},
                        i \in {j \in 1..Len(entries) : ~IsDirectory(entries[j])}}

\* well-formed files with every archive and fault
WellFormedFile(entries, fault) ==
    [exists |-> TRUE, ext |-> X_docx, size |-> 1024, readError |-> None,
     suspicious |-> FALSE, zipError |-> None, entries |-> entries,
     fault |-> fault]
ArchiveFiles ==
    UNION {{WellFormedFile(a, ft) : ft \in FaultsOf(a)} : a \in Archives}

\* whole documents: the document part with each kind of core and application
\* part (absent, well formed, malformed, empty) and an image
CorePart == XmlPart(CoreTree(<<KV(K_dctitle, Str(T_Report))>>))
AuxiliaryChoices(fileName, wellFormed) ==
    {<<>>, <<Entry(fileName, wellFormed)>>, <<Entry(fileName, MalformedPart)>>,
     <<Entry(fileName, EmptyPart)>>}
ScenarioArchives ==
    {<<Entry(N_wordDir, EmptyPart), Entry(N_documentXml, DocumentPart)>>
        \o core \o app \o <<Entry(N_image, BinaryPart)>> :
        core \in AuxiliaryChoices(N_coreXml, CorePart),
        app \in AuxiliaryChoices(N_appXml, AppPart)}
ScenarioFiles == {WellFormedFile(a, NoFault) : a \in ScenarioArchives}

\* one archive behind every outcome of the validation
SafetyFiles ==
    [exists : BOOLEAN, ext : {X_DOCX, X_txt},
     size : {MaxFileSize, MaxFileSize + 1},
     readError : {None, Some(E_EACCES)}, suspicious : BOOLEAN,
     zipError : {None, Some(E_notZip)},
     entries : {<<Entry(N_documentXml, DocumentPart)>>}, fault : {NoFault}]

GivenConfigs ==
    [safetyChecks : {Bool(TRUE), Bool(FALSE)},
     includeMetadata : {Bool(TRUE), Bool(FALSE)},
     extractImages : {Bool(TRUE), Bool(FALSE)}]

(***************************************************************************)
(* The parseDocument specification: one call, from its start to its return *)
(***************************************************************************)
ParseInit ==
    /\ ctorConfig \in GivenConfigs
    /\ config = WordParserConstructor(ctorConfig)
    /\ updates = <<>> /\ backups = <<>>
    /\ file \in ArchiveFiles \cup ScenarioFiles \cup SafetyFiles
    /\ pc = "start"
    /\ zip = "unopened" /\ reads = 0 /\ opening = {} /\ streams = <<>>
    /\ nEntries = 0 /\ content = <<>> /\ promise = NoPromise
    /\ result = NewResult /\ log = <<>>
    /\ TextIdle /\ MetaIdle /\ FmtIdle

Alive == pc # "crashed"
zipVars == <<zip, reads, opening, streams, nEntries, content, promise>>
idleVars == <<textVars, metaVars, fmtVars, hostVars>>

\* line 48: extractDocxContent(filePath) creates the promise and calls yauzl.open
BeginContainerRead ==
    /\ pc' = "extractDocxContent"
    /\ promise' = Pending
    /\ zip' = "opening"
    /\ log' = Append(log, "container")
    /\ UNCHANGED <<reads, opening, streams, nEntries, content>>

\* lines 29-40: up to the first await
ParseDocumentCall ==
    /\ pc = "start"
    /\ IF Truthy(config.safetyChecks)
       THEN /\ pc' = "validateFile"
            /\ log' = Append(log, "safety")
            /\ UNCHANGED zipVars
       ELSE BeginContainerRead
    /\ UNCHANGED <<config, file, result, idleVars>>

\* lines 40-48: validateFile has returned
ValidateFileReturn ==
    /\ pc = "validateFile"
    /\ LET safetyResult == validateFile(file) IN
       IF ~safetyResult.isSafe
       THEN /\ result' = SurfaceIssues(result, safetyResult.issues)
            /\ pc' = "returned"
            /\ UNCHANGED <<zipVars, log>>
       ELSE /\ BeginContainerRead
            /\ UNCHANGED result
    /\ UNCHANGED <<config, file, idleVars>>

\* lines 86-92: the callback of yauzl.open
OpenCallback ==
    /\ Alive /\ zip = "opening"
    /\ IF OpenError(file) # None
       THEN /\ promise' = Settle(promise, Rejected(OpenError(file)[1]))
            /\ zip' = "failed"
            /\ UNCHANGED reads
       ELSE /\ zip' = "open"
            /\ reads' = reads + 1
            /\ UNCHANGED promise
    /\ UNCHANGED <<opening, streams, nEntries, content, pc, result, log,
                   config, file, idleVars>>

\* yauzl answers a readEntry() with the next entry, with 'end' or with 'error'
ReadDue == Alive /\ zip = "open" /\ reads > nEntries

\* lines 93-100: only a directory entry asks for the next entry at once
\* (variant that asks for the next entry for a file entry too)
ReadsAfterEntryEager(e, n) == n + 1
ReadsAfterEntry(e, n) == IF IsDirectory(e) THEN n + 1 ELSE n

\* lines 92-118: the 'entry' handler
EntryEvent ==
    /\ ReadDue
    /\ nEntries < Len(file.entries)
    /\ file.fault # Fault("archive", nEntries + 1)
    /\ nEntries' = nEntries + 1
    /\ reads' = ReadsAfterEntry(file.entries[nEntries + 1], reads)
    /\ IF IsDirectory(file.entries[nEntries + 1])
       THEN UNCHANGED opening
       ELSE opening' = opening \cup {nEntries + 1}
    /\ UNCHANGED <<zip, streams, content, promise, pc, result, log, config, file,
                   idleVars>>

\* lines 100-110: the callback of openReadStream
OpenReadStreamCallback(i) ==
    /\ Alive /\ i \in opening
    /\ opening' = opening \ {i}
    /\ IF file.fault = Fault("openReadStream", i)
       THEN /\ promise' = Settle(promise, Rejected(E_stream))
            /\ UNCHANGED streams
       ELSE /\ streams' = streams @@ (i :> <<>>)
            /\ UNCHANGED promise
    /\ UNCHANGED <<zip, reads, nEntries, content, pc, result, log, config, file,
                   idleVars>>

\* line 111: the 'data' handler
StreamData(i) ==
    /\ Alive /\ i \in DOMAIN streams
    /\ Len(streams[i]) < Len(ChunksOf(file.entries[i]))
    /\ streams' = [streams EXCEPT
                     ![i] = Append(@, ChunksOf(file.entries[i])[Len(@) + 1])]
    /\ UNCHANGED <<zip, reads, opening, nEntries, content, promise, pc, result,
                   log, config, file, idleVars>>

CloseStream(i) == [j \in DOMAIN streams \ {i} |-> streams[j]]

\* lines 112-115: the 'end' handler
StreamEnd(i) ==
    /\ Alive /\ i \in DOMAIN streams
    /\ Len(streams[i]) = Len(ChunksOf(file.entries[i]))
    /\ file.fault # Fault("readStream", i)
    /\ content' = StoreEntry(content, file.entries[i].fileName, Concat(streams[i]))
    /\ reads' = reads + 1
    /\ streams' = CloseStream(i)
    /\ UNCHANGED <<zip, opening, nEntries, promise, pc, result, log, config, file,
                   idleVars>>

\* the read stream emits 'error'; lines 110-116 attach no 'error' listener, so
\* the emitter throws out of the event loop.  Without a handler for uncaught
\* exceptions in the host, the process ends ...
StreamErrorUncaught(i) ==
    /\ Alive /\ i \in DOMAIN streams
    /\ file.fault = Fault("readStream", i)
    /\ streams' = CloseStream(i)
    /\ pc' = "crashed"
    /\ UNCHANGED <<zip, reads, opening, nEntries, content, promise, result, log,
                   config, file, idleVars>>

\* ... and with one, the process lives on and nothing reads the next entry
StreamErrorSwallowed(i) ==
    /\ Alive /\ i \in DOMAIN streams
    /\ file.fault = Fault("readStream", i)
    /\ streams' = CloseStream(i)
    /\ UNCHANGED <<zip, reads, opening, nEntries, content, promise, pc, result,
                   log, config, file, idleVars>>

\* lines 120-122: the 'end' handler of the archive
ArchiveEnd ==
    /\ ReadDue
    /\ nEntries = Len(file.entries)
    /\ file.fault # Fault("archive", nEntries + 1)
    /\ zip' = "ended"
    /\ promise' = Settle(promise, Fulfilled(content))
    /\ UNCHANGED <<reads, opening, streams, nEntries, content, pc, result, log,
                   config, file, idleVars>>

\* lines 124-126: the 'error' handler of the archive
ArchiveError ==
    /\ ReadDue
    /\ file.fault = Fault("archive", nEntries + 1)
    /\ zip' = "failed"
    /\ promise' = Settle(promise, Rejected(E_directory))
    /\ UNCHANGED <<reads, opening, streams, nEntries, content, pc, result, log,
                   config, file, idleVars>>

\* the part mapping the container read resolved with
DocxContent == AsMapping(promise.value)
WithContent(res, text) == [res EXCEPT !.content = Some(text)]
WithMetadata(res, md) == [res EXCEPT !.metadata = Some(md)]
WithImages(res, images) == [res EXCEPT !.images = Some(images)]

\* lines 48-57 and 75-77: the await of extractDocxContent is over
ContainerReadSettled ==
    /\ pc = "extractDocxContent"
    /\ promise.state \in {"fulfilled", "rejected"}
    /\ IF promise.state = "rejected"
       THEN /\ result' = ParsingFailed(result, promise.reason)
            /\ pc' = "returned"
            /\ UNCHANGED log
       ELSE IF ~PartTruthy(PartOf(DocxContent, N_documentXml))
       THEN /\ result' = MissingDocument(result)
            /\ pc' = "returned"
            /\ UNCHANGED log
       ELSE /\ pc' = "parseStringPromise"
            /\ log' = Append(log, "xml")
            /\ UNCHANGED result
    /\ UNCHANGED <<zipVars, config, file, idleVars>>

\* lines 68-73: what follows the metadata step
ImagesOrReturn(res, stages) ==
    IF Truthy(config.extractImages)
    THEN /\ result' = res
         /\ pc' = "extractImages"
         /\ log' = log \o stages \o <<"images">>
    ELSE /\ result' = Succeeded(res)
         /\ pc' = "returned"
         /\ log' = log \o stages

\* lines 57 and 75-77: parseStringPromise rejects the document part
ParseStringRejected ==
    /\ pc = "parseStringPromise"
    /\ PartOf(DocxContent, N_documentXml)[1].kind # "xml"
    /\ result' = ParsingFailed(result, E_xml)
    /\ pc' = "returned"
    /\ UNCHANGED <<zipVars, log, config, file, idleVars>>

\* lines 57-65: parseStringPromise resolves with the parsed document
ParseStringResolved ==
    /\ pc = "parseStringPromise"
    /\ PartOf(DocxContent, N_documentXml)[1].kind = "xml"
    /\ LET parsed == PartOf(DocxContent, N_documentXml)[1].tree
           res == WithContent(result, extractText(parsed))
       IN  IF Truthy(config.includeMetadata)
           THEN /\ result' = res
                /\ pc' = "extractMetadata"
                /\ log' = log \o <<"text", "metadata">>
           ELSE ImagesOrReturn(res, <<"text">>)
    /\ UNCHANGED <<zipVars, config, file, idleVars>>

\* (variant without the try/catch of lines 283-310: a part that does not
\* parse rejects the await)
ExtractMetadataSettledUncaught ==
    /\ pc = "extractMetadata"
    /\ IF \E n \in DOMAIN DocxContent : DocxContent[n].kind = "malformed"
       THEN /\ result' = ParsingFailed(result, E_xml)
            /\ pc' = "returned"
            /\ UNCHANGED log
       ELSE ImagesOrReturn(WithMetadata(result, extractMetadata(DocxContent)), <<>>)
    /\ UNCHANGED <<zipVars, config, file, idleVars>>

\* lines 64-73: the await of extractMetadata is over
ExtractMetadataSettled ==
    /\ pc = "extractMetadata"
    /\ ImagesOrReturn(WithMetadata(result, extractMetadata(DocxContent)), <<>>)
    /\ UNCHANGED <<zipVars, config, file, idleVars>>

\* lines 69-73: the await of extractImages is over
ExtractImagesSettled ==
    /\ pc = "extractImages"
    /\ result' = Succeeded(WithImages(result, extractImages(promise.value)))
    /\ pc' = "returned"
    /\ UNCHANGED <<zipVars, log, config, file, idleVars>>

\* the callbacks of the container read
ContainerEvents ==
    \/ OpenCallback
    \/ EntryEvent
    \/ \E i \in 1..Len(file.entries) : OpenReadStreamCallback(i)
    \/ \E i \in 1..Len(file.entries) : StreamData(i)
    \/ \E i \in 1..Len(file.entries) : StreamEnd(i)
    \/ \E i \in 1..Len(file.entries) : StreamErrorUncaught(i)
    \/ \E i \in 1..Len(file.entries) : StreamErrorSwallowed(i)
    \/ ArchiveEnd
    \/ ArchiveError

\* the steps of parseDocument up to the XML parse
ParseSteps ==
    \/ ParseDocumentCall
    \/ ValidateFileReturn
    \/ ContainerReadSettled
    \/ ParseStringRejected

\* the steps of parseDocument once the document part is parsed
ExtractionSteps ==
    \/ ParseStringResolved
    \/ ExtractMetadataSettled
    \/ ExtractImagesSettled

Next == ContainerEvents \/ ParseSteps \/ ExtractionSteps

Spec == ParseInit /\ [][Next]_vars

\* the event loop runs every callback and continuation that is due; the claims
\* about failing calls need no fairness of the steps after the XML parse
FairSpec == Spec /\ WF_vars(ContainerEvents) /\ WF_vars(ParseSteps)

(***************************************************************************)
(* The parser in its host: construction, one parseDocument call, and the   *)
(* other operations the host may call at any of the call's suspension      *)
(* points (updateConfig, SafetyManager.createBackup)                       *)
(***************************************************************************)
MaxUpdates == 1
MaxBackups == 1

\* {...a, ...b}
Spread(a, b) ==
    [k \in DOMAIN a \cup DOMAIN b |-> IF k \in DOMAIN b THEN b[k] ELSE a[k]]

\* an option of the argument: left out, or given with a value
Omitted == <<>>
Given(k, v) == (k :> v)
OptionChoices(values) == {Omitted} \cup {Given("v", v) : v \in {Undefined} \cup values}
OptionsOf(choices) ==
    [k \in {j \in DOMAIN choices : choices[j] # Omitted} |-> choices[k]["v"]]

\* the arguments of the constructor: every way of giving the three options
\* parseDocument reads, and every way of giving the other two
ConstructorArguments ==
    {OptionsOf([safetyChecks |-> s, includeMetadata |-> m, extractImages |-> e]) :
        s \in OptionChoices({Bool(TRUE), Bool(FALSE)}),
        m \in OptionChoices({Bool(TRUE), Bool(FALSE)}),
        e \in OptionChoices({Bool(TRUE), Bool(FALSE)})}
    \cup {OptionsOf([preserveFormatting |-> p, outputFormat |-> o]) :
            p \in OptionChoices({Bool(FALSE)}),
            o \in OptionChoices({Str(F_json)})}

\* the arguments of updateConfig
ConfigUpdates ==
    {Given("safetyChecks", Bool(FALSE)), Given("includeMetadata", Bool(FALSE)),
     Given("extractImages", Bool(TRUE))}

HostFiles ==
    {WellFormedFile(<<Entry(N_documentXml, DocumentPart), Entry(N_appXml, AppPart)>>,
                    NoFault),
     WellFormedFile(<<Entry(N_documentXml, DocumentPart)>>, Fault("readStream", 1)),
     WellFormedFile(<<Entry(N_documentXml, DocumentPart)>>,
                    Fault("openReadStream", 1)),
     WellFormedFile(<<Entry(N_wordDir, EmptyPart)>>, Fault("archive", 2)),
     [WellFormedFile(<<Entry(N_documentXml, MalformedPart)>>, NoFault)
         EXCEPT !.ext = X_txt]}

HostInit ==
    /\ ctorConfig \in ConstructorArguments
    /\ file \in HostFiles
    /\ config = <<>>
    /\ pc = "new"
    /\ zip = "unopened" /\ reads = 0 /\ opening = {} /\ streams = <<>>
    /\ nEntries = 0 /\ content = <<>> /\ promise = NoPromise
    /\ result = NewResult /\ log = <<>>
    /\ updates = <<>> /\ backups = <<>>
    /\ TextIdle /\ MetaIdle /\ FmtIdle

parserVars == <<file, pc, zipVars, result, log, textVars, metaVars, fmtVars>>

\* lines 11-27: new WordParser(config)
Construct ==
    /\ pc = "new"
    /\ config' = WordParserConstructor(ctorConfig)
    /\ pc' = "start"
    /\ UNCHANGED <<file, zipVars, result, log, textVars, metaVars, fmtVars,
                   hostVars>>

\* lines 437-439: updateConfig(newConfig)
UpdateConfigCall(newConfig) ==
    /\ pc \notin {"new", "crashed"}
    /\ Len(updates) < MaxUpdates
    /\ config' = Spread(config, newConfig)
    /\ updates' = Append(updates, [at |-> pc, before |-> config])
    /\ UNCHANGED <<parserVars, ctorConfig, backups>>

\* lines 71-88 of the safety manager: createBackup(filePath), which copies
\* the file or throws to its caller
CreateBackupCall ==
    /\ pc \notin {"new", "crashed"}
    /\ Len(backups) < MaxBackups
    /\ backups' = IF file.exists /\ file.readError = None
                  THEN Append(backups, [at |-> pc]) ELSE backups
    /\ UNCHANGED <<parserVars, config, ctorConfig, updates>>

HostCalls ==
    \/ Construct
    \/ \E newConfig \in ConfigUpdates : UpdateConfigCall(newConfig)
    \/ CreateBackupCall

HostNext == HostCalls \/ Next

SpecHost == HostInit /\ [][HostNext]_vars

(***************************************************************************)
(* Claims about parseDocument (checked under Spec and FairSpec)            *)
(***************************************************************************)
Stages == {log[i] : i \in 1..Len(log)}
Returned == pc = "returned"
Unsafe == Truthy(config.safetyChecks) /\ ~validateFile(file).isSafe

\* C1: when safety checks are enabled and validateFile returns isSafe = false,
\* no container read is ever started for the call, and the result it returns
\* has success = false and errors equal to the issues, in the same order.
C1_UnsafeFileIsRejectedUnread ==
    Unsafe =>
        /\ zip = "unopened" /\ promise = NoPromise /\ reads = 0
        /\ "container" \notin Stages
        /\ Returned => /\ result.success = FALSE
                       /\ result.errors = validateFile(file).issues
C1_Witness ==
    /\ Returned /\ Unsafe
    /\ Len(validateFile(file).issues) >= 2
    /\ result.errors = validateFile(file).issues

\* the data of the last entry of the archive with this name
LastData(fileName) ==
    LET last == CHOOSE i \in 1..Len(file.entries) :
                    /\ file.entries[i].fileName = fileName
                    /\ \A j \in (i + 1)..Len(file.entries) :
                           file.entries[j].fileName # fileName
    IN  file.entries[last].data
DocumentData ==
    IF \E i \in 1..Len(file.entries) : file.entries[i].fileName = N_documentXml
    THEN Some(LastData(N_documentXml)) ELSE None
\* the call meets a fatal condition: it passes the validation, and the
\* container does not open, or the archive or a read stream fails, or the
\* document part is missing or is not XML
FatalCondition ==
    /\ pc # "start"
    /\ ~Unsafe
    /\ \/ OpenError(file) # None
       \/ file.fault # NoFault
       \/ ~PartTruthy(DocumentData)
       \/ DocumentData[1].kind # "xml"
ReturnedFailure == Returned /\ ~result.success /\ result.errors # <<>>

\* C2: a call that meets a fatal condition eventually returns a result with
\* success = false and non-empty errors; it never raises and never stays
\* pending for ever.
C2_FatalConditionReturnsFailure ==
    [](pc # "crashed") /\ (FatalCondition ~> ReturnedFailure)

\* C3: every returned result has content exactly when success = true, and
\* has success = false whenever its errors are non-empty.
C3_ContentIffSuccess ==
    Returned =>
        /\ (result.content # None) <=> result.success
        /\ result.errors # <<>> => ~result.success
C3_Witness ==
    /\ Returned /\ result.success
    /\ result.content = Some(T_FirstSecond)
    /\ result.metadata # None /\ result.errors = <<>>

\* the document part of the archive is there and is well-formed XML
DocumentParses == PartTruthy(DocumentData) /\ DocumentData[1].kind = "xml"
AuxiliaryKind(fileName) ==
    IF \E i \in 1..Len(file.entries) : file.entries[i].fileName = fileName
    THEN LastData(fileName).kind ELSE "absent"

\* C11: whenever the document part is present and parses (and the container
\* is read without a failure), the call returns success = true with the
\* extracted content and no errors, whatever the core and application parts
\* contain.
C11_AuxiliaryPartsNeverFail ==
    (Returned /\ ~Unsafe /\ OpenError(file) = None /\ file.fault = NoFault
        /\ DocumentParses) =>
        /\ result.success
        /\ result.content = Some(extractText(DocumentData[1].tree))
        /\ result.errors = <<>>
C11_Witness ==
    /\ Returned /\ result.success /\ result.errors = <<>>
    /\ AuxiliaryKind(N_coreXml) = "malformed"
    /\ AuxiliaryKind(N_appXml) = "malformed"
    /\ result.metadata = Some(EmptyMetadata)

StageRank(stage) ==
    CASE stage = "safety" -> 1 [] stage = "container" -> 2 [] stage = "xml" -> 3
      [] stage = "text" -> 4 [] stage = "metadata" -> 5 [] stage = "images" -> 6
OpenEntries == opening \cup DOMAIN streams
\* every file entry of the archive has been read to its end and stored
Drained ==
    /\ zip = "ended" /\ OpenEntries = {}
    /\ nEntries = Len(file.entries)
    /\ \A i \in 1..Len(file.entries) :
          ~IsDirectory(file.entries[i]) =>
              PartOf(AsMapping(content), file.entries[i].fileName)
                  = Some(LastData(file.entries[i].fileName))

BeforeContainerRead == {"start", "validateFile"}

\* C13: in every call that goes on to read the container, createBackup has
\* completed for the file before the container read starts.
C13_BackupBeforeContainerRead ==
    "container" \in Stages =>
        \E i \in 1..Len(backups) : backups[i].at \in BeforeContainerRead

OptionSupplied(k) == k \in DOMAIN ctorConfig /\ ctorConfig[k] # Undefined

\* C14: after construction every option the caller left out or gave as
\* undefined has its default, every option the caller set has the caller's
\* value, and a call runs the safety validation unless the caller set
\* safetyChecks to false.
C14_OmittedOptionsTakeDefaults ==
    (pc # "new" /\ updates = <<>>) =>
        /\ \A k \in DOMAIN DefaultConfig :
              config[k] = IF OptionSupplied(k) THEN ctorConfig[k]
                          ELSE DefaultConfig[k]
        /\ (pc # "start" /\ ~(OptionSupplied("safetyChecks")
                               /\ ctorConfig["safetyChecks"] = Bool(FALSE)))
              => "safety" \in Stages

\* the options when the call started: those before the first updateConfig
\* that came after the start
UpdatesInFlight == {i \in 1..Len(updates) : updates[i].at # "start"}
StartConfig ==
    IF UpdatesInFlight = {} THEN config
    ELSE updates[FirstMatch(UpdatesInFlight)].before

\* C15: no operation changes the configuration once construction is over, and
\* the decisions of a call (safety checks, metadata, images) follow the options
\* that held when the call started.
C15_ConfigReadOnlyAfterConstruction ==
    /\ [][pc # "new" => config' = config]_vars
    /\ [](pc \notin {"new", "start"} =>
            /\ "safety" \in Stages <=> Truthy(StartConfig.safetyChecks)
            /\ "text" \in Stages =>
                  ("metadata" \in Stages <=> Truthy(StartConfig.includeMetadata))
            /\ (Returned /\ result.success) =>
                  ("images" \in Stages <=> Truthy(StartConfig.extractImages)))

(***************************************************************************)
(* Claims about extractText (checked under SpecText)                       *)
(***************************************************************************)
\* every string leaf of a tree in tree order, with whether it lies beneath a
\* key naming a property, style, font or settings subtree
PropertyName(key) ==
    \/ Includes(key, S_Pr) \/ Includes(key, S_Style) \/ Includes(key, S_Properties)
    \/ Includes(key, S_Fonts) \/ Includes(key, S_Settings)
RECURSIVE Leaves(_, _)
RECURSIVE LeavesOfItems(_, _)
RECURSIVE LeavesOfEntries(_, _)
LeavesOfItems(items, beneath) ==
    IF items = <<>> THEN <<>>
    ELSE Leaves(items[1], beneath) \o LeavesOfItems(Tail(items), beneath)
LeavesOfEntries(entries, beneath) ==
    IF entries = <<>> THEN <<>>
    ELSE Leaves(entries[1].v, beneath \/ PropertyName(entries[1].k))
         \o LeavesOfEntries(Tail(entries), beneath)
Leaves(node, beneath) ==
    IF node.kind = "string" THEN <<[s |-> node.s, beneath |-> beneath]>>
    ELSE IF node.kind = "array" THEN LeavesOfItems(node.items, beneath)
    ELSE IF node.kind = "object" THEN LeavesOfEntries(node.entries, beneath)
    ELSE <<>>

\* the texts that occur only beneath a property-named child
PropertyOnlyTexts(doc) ==
    LET ls == Leaves(doc, FALSE) IN
    {Trim(ls[i].s) : i \in {j \in 1..Len(ls) : ls[j].beneath /\ Trim(ls[j].s) # <<>>}}
    \ {Trim(ls[i].s) : i \in {j \in 1..Len(ls) : ~ls[j].beneath}}

\* the fallback string as the claim words it: the trimmed non-empty leaves
\* without a namespace URI, minus short and numeric tokens, joined by spaces
IsToken(l) == Trim(l.s) # <<>> /\ ~Includes(l.s, S_schemas)
IsLongWord(l) ==
    Len(Trim(l.s)) > 2 /\ \E i \in 1..Len(Trim(l.s)) : Trim(l.s)[i] \notin Digit
RECURSIVE TrimAll(_)
TrimAll(ls) == IF ls = <<>> THEN <<>> ELSE <<Trim(ls[1].s)>> \o TrimAll(Tail(ls))
JoinedTokens(doc) ==
    Join(TrimAll(SelectSeq(SelectSeq(Leaves(doc, FALSE), IsToken), IsLongWord)), <<" ">>)
CollapsedTokens(doc) == Trim(ReplaceRuns(JoinedTokens(doc), WhiteSpace, 1, <<" ">>))

\* the choice between the primary result and a fallback string fb
Chosen(primary, fb) ==
    IF Len(primary) < 10 /\ Len(fb) > Len(primary) THEN fb ELSE primary

PlainLists == UNION {[1..n -> PlainWords] : n \in 1..MaxParagraphs}
ParasOf(ts) == [i \in 1..Len(ts) |-> Para(ts[i])]

\* C5: for a body of n >= 1 paragraphs of one run each with the plain texts
\* t_1..t_n, extractText returns the texts in order, separated by exactly one
\* pair of newlines, with no leading or trailing break.
C5_ParagraphsJoinedByBreaks ==
    \A ts \in PlainLists :
        (parsedDoc = BareDocument(ParasOf(ts)) /\ finalText # None)
        => finalText[1] = Join(ts, <<"\n", "\n">>)

\* C6: no text leaf containing "http://schemas" contributes to the text that
\* extractText returns, so the returned text never contains that substring.
C6_NoNamespaceText ==
    finalText # None => ~Includes(finalText[1], S_schemas)

\* C7 as stated: text that occurs only beneath a property-named child never
\* appears in the text extractText returns, whatever the primary walk found.
C7_PropertyTextNeverAppears ==
    finalText # None =>
        \A h \in PropertyOnlyTexts(parsedDoc) : ~Includes(finalText[1], h)

\* the fallback scan's string replaced the primary result
FallbackUsed(doc) ==
    /\ Len(PrimaryText(doc)) < 10
    /\ Len(extractTextFallback(doc)) > Len(PrimaryText(doc))

\* C7 as amended: text that occurs only beneath a property-named child does
\* not appear in the returned text whenever extractText returns the primary
\* result, at every nesting level.
C7_PropertyTextNotInPrimary ==
    (finalText # None /\ ~FallbackUsed(parsedDoc)) =>
        \A h \in PropertyOnlyTexts(parsedDoc) : ~Includes(finalText[1], h)

\* the generic recursion passed property-named children at three levels (body,
\* table, row) and the primary result of 10 or more characters was returned
C7_Witness ==
    /\ finalText # None
    /\ \E ps \in CellParagraphLists : parsedDoc = TableDocument(ps)
    /\ {T_landscape, T_center, T_dxa} \subseteq PropertyOnlyTexts(parsedDoc)
    /\ Len(finalText[1]) >= 10
    /\ ~FallbackUsed(parsedDoc)

\* C8 as stated: the fallback string, which is the space-joined sequence of
\* the tokens, is returned exactly when the primary result is shorter than 10
\* characters and the fallback string is strictly longer.
C8_FallbackIsJoinedTokens ==
    finalText # None =>
        finalText[1] = Chosen(PrimaryText(parsedDoc), JoinedTokens(parsedDoc))

\* C8 as amended: the same, the fallback string being the space-joined
\* sequence of the tokens with every run of whitespace in it collapsed to one
\* space.
C8_FallbackIsCollapsedTokens ==
    finalText # None =>
        finalText[1] = Chosen(PrimaryText(parsedDoc), CollapsedTokens(parsedDoc))

\* the fallback string replaced a shorter primary result, tokens were dropped
\* as short or numeric, and a kept token held a run of whitespace
C8_Witness ==
    /\ finalText # None
    /\ Len(PrimaryText(parsedDoc)) < 10
    /\ finalText[1] = CollapsedTokens(parsedDoc)
    /\ finalText[1] # PrimaryText(parsedDoc)
    /\ JoinedTokens(parsedDoc) # CollapsedTokens(parsedDoc)
    /\ \E i \in 1..Len(Leaves(parsedDoc, FALSE)) :
           Leaves(parsedDoc, FALSE)[i].s = T_12240

(***************************************************************************)
(* Claims about extractMetadata (checked under SpecMeta)                   *)
(***************************************************************************)
\* the element of a parsed auxiliary part that a metadata field comes from
SourceElement(docx, part, root, key) ==
    IF part \in DOMAIN docx /\ docx[part].kind = "xml"
    THEN Prop(PropsOf(docx[part].tree, root), key)
    ELSE Undefined
\* a value that is a decimal numeral
NumericValue(n) ==
    n.kind = "string" /\ n.s # <<>> /\ \A i \in 1..Len(n.s) : n.s[i] \in Digit
BothPartsParse(docx) == \A part \in DOMAIN docx : docx[part].kind = "xml"

CountIsIntegerOrAbsent(field, src) ==
    /\ field # None <=> NumericValue(src)
    /\ field # None => field[1] = Num(DigitsValue(src.s, 10))

\* C10: each of pages, words and characters is present iff its application
\* property is present and numeric, and then equals its integer value; a
\* non-numeric value leaves the field absent; fields with no source element
\* are absent.
C10_CountsPresentIffNumeric ==
    (metadata # None /\ BothPartsParse(docxContent)) =>
        LET md == metadata[1]
            app(key) == SourceElement(docxContent, N_appXml, K_Properties, key)
            core(key) == SourceElement(docxContent, N_coreXml,
                                       K_coreProperties, key)
        IN  /\ CountIsIntegerOrAbsent(md.pages, app(K_Pages))
            /\ CountIsIntegerOrAbsent(md.words, app(K_Words))
            /\ CountIsIntegerOrAbsent(md.characters, app(K_Characters))
            /\ core(K_dctitle) = Undefined => md.title = None
            /\ core(K_dccreator) = Undefined => md.author = None
            /\ core(K_dcsubject) = Undefined => md.subject = None
            /\ core(K_dctermscreated) = Undefined => md.created = None
            /\ core(K_dctermsmodified) = Undefined => md.modified = None

CountsOf(md) == <<md.pages, md.words, md.characters>>
CoreFieldsOf(md) == <<md.title, md.author, md.subject, md.created, md.modified>>
PartKind(docx, fileName) ==
    IF fileName \in DOMAIN docx THEN docx[fileName].kind ELSE "absent"

\* C12: a parse failure on one auxiliary part leaves only that part's fields
\* absent: when the core part fails to parse and the application part is well
\* formed, pages, words and characters are those of the application part;
\* when the application part fails, the fields of the core part are kept.
C12_FailureLeavesOtherPartFields ==
    metadata # None =>
        /\ (PartKind(docxContent, N_coreXml) = "malformed"
               /\ PartKind(docxContent, N_appXml) = "xml") =>
              CountsOf(metadata[1]) =
                  CountsOf(extractMetadata(
                      WithParts(None, Some(docxContent[N_appXml]))))
        /\ (PartKind(docxContent, N_appXml) = "malformed"
               /\ PartKind(docxContent, N_coreXml) = "xml") =>
              CoreFieldsOf(metadata[1]) =
                  CoreFieldsOf(extractMetadata(
                      WithParts(Some(docxContent[N_coreXml]), None)))

(***************************************************************************)
(* Claims about convertToFormat (checked under SpecFmt)                    *)
(***************************************************************************)
MemberNames(o) == {o.members[i].k : i \in 1..Len(o.members)}
MemberValue(o, k) == o.members[CHOOSE i \in 1..Len(o.members) : o.members[i].k = k].v

\* C9: for every text and every metadata argument, an absent one included,
\* convertToFormat(text, "json", meta) yields a serialized object whose fields
\* are exactly content, metadata, format and timestamp, with content equal to
\* the input text and format equal to "json".
C9_JsonHasFourFields ==
    (fmtOut # None /\ fmtArgs.format = F_json) =>
        /\ MemberNames(fmtOut[1]) = {"content", "metadata", "format", "timestamp"}
        /\ MemberValue(fmtOut[1], "content") = JsonString(fmtArgs.content)
        /\ MemberValue(fmtOut[1], "format") = JsonString(F_json)

\* HTML as a reader decodes it: one pass, each entity giving its character
RECURSIVE UnescapeHtml(_)
UnescapeHtml(s) ==
    LET m == FirstMatch({i \in 1..Len(s) : s[i] = "&"})
        rest == Drop(s, m - 1)
    IN  IF m = 0 THEN s
        ELSE SubStr(s, 1, m - 1) \o
             (CASE StartsWith(rest, E_amp) -> <<"&">> \o UnescapeHtml(Drop(rest, Len(E_amp)))
                [] StartsWith(rest, E_lt) -> <<"<">> \o UnescapeHtml(Drop(rest, Len(E_lt)))
                [] StartsWith(rest, E_gt) -> <<">">> \o UnescapeHtml(Drop(rest, Len(E_gt)))
                [] StartsWith(rest, E_quot) -> <<"\"">> \o UnescapeHtml(Drop(rest, Len(E_quot)))
                [] StartsWith(rest, E_apos) -> <<"'">> \o UnescapeHtml(Drop(rest, Len(E_apos)))
                [] OTHER -> <<"&">> \o UnescapeHtml(Drop(rest, 1)))

\* every ampersand of s begins one of the five entities and none of the other
\* four characters is left
Escaped(s) ==
    /\ \A i \in 1..Len(s) : s[i] \notin {"<", ">", "\"", "'"}
    /\ \A i \in 1..Len(s) :
          s[i] = "&" => \E e \in {E_amp, E_lt, E_gt, E_quot, E_apos} :
                            StartsWith(Drop(s, i - 1), e)

\* the elements <open>...<close> of an HTML text that stand on a line of their
\* own, as the text between the tags
Element(l, open, close) ==
    StartsWith(l, open) /\ EndsWith(l, close) /\ Len(l) >= Len(open) + Len(close)
ElementsOf(html, open, close) ==
    LET IsElement(l) == Element(l, open, close)
        found == SelectSeq(SplitLines(html), IsElement)
    IN  [i \in 1..Len(found) |->
            SubStr(found[i], Len(open) + 1, Len(found[i]) - Len(close))]
Occurrences(s, p) ==
    Cardinality({i \in 0..(Len(s) - Len(p)) : SubStr(s, i + 1, i + Len(p)) = p})

HtmlCall == fmtOut # None /\ ToLowerCase(fmtArgs.format) = F_html
H_pClose == <<"<","/","p",">">>
H_titleClose == <<"<","/","t","i","t","l","e",">">>
H_h1Close == <<"<","/","h","1",">">>

\* C16: the HTML rendering has exactly one <p> element for each non-blank line
\* of the text, in line order; the title and every paragraph are escaped (none
\* of < > " ' is left and every & begins an entity), and decoding the emitted
\* text gives back the title and the line.
C16_HtmlParagraphsEscaped ==
    HtmlCall =>
        LET paragraphs == ElementsOf(fmtOut[1], H_p, H_pClose)
            lines == NonBlankLines(fmtArgs.content)
            title == TitleOf(fmtArgs.metadata)
            titles == ElementsOf(fmtOut[1], H_title, H_titleClose)
                      \o ElementsOf(fmtOut[1], H_h1, H_h1Close)
        IN  /\ Occurrences(fmtOut[1], H_p) = Len(lines)
            /\ Len(paragraphs) = Len(lines)
            /\ \A i \in 1..Len(lines) :
                  /\ Escaped(paragraphs[i])
                  /\ UnescapeHtml(paragraphs[i]) = lines[i]
            /\ Len(titles) = IF title = None THEN 0 ELSE 2
            /\ \A i \in 1..Len(titles) :
                  /\ Escaped(titles[i])
                  /\ UnescapeHtml(titles[i]) = title[1]

C16_Witness ==
    /\ HtmlCall
    /\ Len(SplitLines(fmtArgs.content)) > Len(NonBlankLines(fmtArgs.content))
    /\ Len(NonBlankLines(fmtArgs.content)) >= 2
    /\ Includes(fmtArgs.content, <<"&">>) /\ Includes(fmtArgs.content, <<"<">>)
    /\ TitleOf(fmtArgs.metadata) = Some(T_RnD)
    /\ Includes(fmtOut[1], E_amp \o <<"D">>)

MarkdownCall == fmtOut # None /\ ToLowerCase(fmtArgs.format) = F_markdown

\* the non-empty sentences of a text, trimmed
CleanSentences(text) ==
    LET pieces == SplitSentences(text)
        NonEmpty(x) == x # <<>>
    IN  SelectSeq([i \in 1..Len(pieces) |-> Trim(pieces[i])], NonEmpty)

\* the length of the paragraph buffer once sentence i of S has joined it: the
\* sentences since the last flush, each followed by one space
RECURSIVE Accumulated(_, _)
Accumulated(S, i) ==
    IF IsHeader(S[i]) THEN 0
    ELSE LET before == IF i = 1 THEN 0 ELSE Accumulated(S, i - 1) IN
         Len(S[i]) + 1 + (IF before > ParagraphLimit THEN 0 ELSE before)

\* a block ends after sentence i when it or the next sentence is a heading or
\* the buffer has gone over the limit
BlockEndsAfter(S, i) ==
    IsHeader(S[i]) \/ IsHeader(S[i + 1]) \/ Accumulated(S, i) > ParagraphLimit

\* the sentences from the i-th on, each once and in order, headings marked,
\* blocks a blank line apart and the sentences of a block a space apart
RECURSIVE BodyFrom(_, _)
BodyFrom(S, i) ==
    IF i > Len(S) THEN <<>>
    ELSE (IF IsHeader(S[i]) THEN M_header ELSE <<>>) \o S[i]
         \o (IF i = Len(S) THEN <<>>
             ELSE (IF BlockEndsAfter(S, i) THEN M_break ELSE <<" ">>)
                  \o BodyFrom(S, i + 1))

ExpectedMarkdown(text, md) ==
    LET title == TitleOf(md)
        author == AuthorOf(md)
        NonEmpty(x) == x # <<>>
    IN  Join(SelectSeq(<<IF title = None THEN <<>> ELSE M_title \o title[1],
                         IF author = None THEN <<>> ELSE M_author \o author[1],
                         BodyFrom(CleanSentences(text), 1)>>, NonEmpty),
             M_break)

ScenarioE == S_Header30 \o <<" ">> \o S_Long250

\* C17: the Markdown rendering holds every non-empty sentence exactly once and in
\* order; a sentence under 50 characters of the title-like pattern is a "## "
\* heading in a block of its own, the other sentences fill paragraphs that end
\* when the buffer goes over 200 characters, before a heading and at the end;
\* a 30-character heading sentence followed by a 250-character sentence gives
\* the heading line and one paragraph block.
C17_MarkdownSentencesOnceInOrder ==
    MarkdownCall =>
        /\ fmtOut[1] = ExpectedMarkdown(fmtArgs.content, fmtArgs.metadata)
        /\ (fmtArgs.content = ScenarioE /\ fmtArgs.metadata = None) =>
              fmtOut[1] = M_header \o S_Header30 \o M_break \o S_Long250

C17_Witness ==
    /\ MarkdownCall
    /\ fmtArgs.content = ScenarioE
    /\ Len(S_Header30) = 30 /\ Len(S_Long250) = 250
    /\ IsHeader(S_Header30)
    /\ StartsWith(fmtOut[1], M_header \o S_Header30 \o M_break)
    /\ EndsWith(fmtOut[1], M_break \o S_Long250)

(***************************************************************************)
(* Claims about the primary walk (checked under SpecWalk)                  *)
(***************************************************************************)
\* the element a path leads to
RECURSIVE NodeAt(_, _)
NodeAt(n, path) ==
    IF path = <<>> THEN n
    ELSE NodeAt(IF n.kind = "array" THEN n.items[path[1]] ELSE n.entries[path[1]].v,
                Tail(path))
\* the key under which the last step of a path lies in its parent
KeyOfStep(doc, path) ==
    LET parent == NodeAt(doc, SubSeq(path, 1, Len(path) - 1)) IN
    IF parent.kind = "object" THEN parent.entries[path[Len(path)]].k ELSE <<>>
IsChildPath(c, p) == Len(c) = Len(p) + 1 /\ SubSeq(c, 1, Len(p)) = p

\* the rules that dispatch on a structural tag, in the priority order
Priority ==
    <<[rule |-> "literal-text", key |-> K_wt], [rule |-> "paragraph", key |-> K_wp],
      [rule |-> "run", key |-> K_wr], [rule |-> "tab", key |-> K_wtab],
      [rule |-> "line-break", key |-> K_wbr],
      [rule |-> "document-root", key |-> K_wdocument],
      [rule |-> "body", key |-> K_wbody]>>
\* the first rule that matches an element
FirstRule(e) ==
    IF ~Truthy(e) THEN "empty"
    ELSE IF e.kind = "string" THEN "string"
    ELSE IF e.kind = "array" THEN "array"
    ELSE LET m == FirstMatch({i \in 1..Len(Priority) : Truthy(Prop(e, Priority[i].key))})
         IN  IF m = 0 THEN "generic" ELSE Priority[m].rule
\* the children a rule hands on, by the key they lie under
HandsOn(rule, key) ==
    CASE rule \in {"paragraph", "run", "document-root", "body"} ->
            \E i \in 1..Len(Priority) : Priority[i].rule = rule /\ Priority[i].key = key
      [] rule \in {"array", "generic"} -> TRUE
      [] OTHER -> FALSE

\* C18: every element of the walk is handled once, by the first rule that
\* matches it in the order literal-text, paragraph, run, tab, line-break,
\* document-root, body, generic recursion; of the children of an element handled
\* by a structural rule only the one under the rule's tag is walked, and no
\* element contributes more than one fragment.
C18_FirstMatchingRuleOnly ==
    /\ \A n \in 1..Len(visited) :
          visited[n].rule = FirstRule(NodeAt(parsedDoc, visited[n].path))
    /\ \A n, m \in 1..Len(visited) : n # m => visited[n].path # visited[m].path
    /\ \A n, m \in 1..Len(visited) :
          IsChildPath(visited[m].path, visited[n].path) =>
              HandsOn(visited[n].rule, KeyOfStep(parsedDoc, visited[m].path))
    /\ \A p, q \in 1..Len(origins) : p # q => origins[p] # origins[q]

HandledBy(rule, keys) ==
    \E n \in 1..Len(visited) :
        /\ visited[n].rule = rule
        /\ \A k \in keys : Truthy(Prop(NodeAt(parsedDoc, visited[n].path), k))

C18_Witness ==
    /\ finalText # None
    /\ HandledBy("literal-text", {K_wt, K_wbr})
    /\ HandledBy("paragraph", {K_wp, K_wtbl})
    /\ \E p \in 1..Len(walkParts) : walkParts[p] = T_introduction

\* a path that comes before another in a left-to-right depth-first traversal
Differ(a, b) == {k \in 1..Len(a) : k <= Len(b) /\ a[k] # b[k]}
ComesBefore(a, b) ==
    IF Differ(a, b) = {} THEN Len(a) < Len(b)
    ELSE a[FirstMatch(Differ(a, b))] < b[FirstMatch(Differ(a, b))]
\* the fragments p and q come from two items of one array
ItemsOfOneArray(p, q) ==
    /\ Differ(origins[p], origins[q]) # {}
    /\ NodeAt(parsedDoc, SubSeq(origins[p], 1,
              FirstMatch(Differ(origins[p], origins[q])) - 1)).kind = "array"

\* C19: the fragments stand in the order of a left-to-right depth-first
\* traversal: of two fragments that come from the items at positions i and j
\* of one array, at any depth, the one from the lower position stands first.
C19_FragmentsInDocumentOrder ==
    \A p, q \in 1..Len(origins) :
        p < q =>
            /\ ComesBefore(origins[p], origins[q])
            /\ ItemsOfOneArray(p, q) =>
                  origins[p][FirstMatch(Differ(origins[p], origins[q]))]
                      < origins[q][FirstMatch(Differ(origins[p], origins[q]))]

\* fragments from the items of arrays at three depths: two rows, two cells of
\* a row, two runs of a paragraph
C19_Witness ==
    /\ finalText # None
    /\ Cardinality({FirstMatch(Differ(origins[p], origins[p + 1])) :
                       p \in {r \in 1..(Len(origins) - 1) : ItemsOfOneArray(r, r + 1)}}) >= 3

Break == <<"\n", "\n">>
\* C20: at every step of the walk a paragraph break is never the first
\* fragment and never stands directly after a fragment that ends in a newline;
\* the text extractText returns never holds more than two newlines in a row.
C20_BreakNeverDoubled ==
    /\ \A i \in 1..Len(walkParts) :
          walkParts[i] = Break => (i > 1 /\ ~EndsWith(walkParts[i - 1], <<"\n">>))
    /\ finalText # None =>
          \A i \in 1..(Len(finalText[1]) - MaxNewlines + 1) :
              \E j \in i..(i + MaxNewlines - 1) : finalText[1][j] # "\n"

\* a paragraph rule left the break out after a fragment that ends in a
\* newline (an explicit break, a text with a trailing line feed), and put it in
\* elsewhere
C20_Witness ==
    /\ finalText # None
    /\ \E i \in 1..Len(walkParts) : walkParts[i] = Break
    /\ \E n \in 1..Len(visited), p \in 1..(Len(walkParts) - 1) :
          /\ visited[n].rule = "paragraph"
          /\ \A q \in 1..Len(origins) : origins[q] # visited[n].path
          /\ walkParts[p] = <<"\n">>
          /\ ComesBefore(origins[p], visited[n].path)
          /\ ComesBefore(visited[n].path, origins[p + 1])

\* the tag is present on the element, whatever its value
TagPresent(e, key) ==
    e.kind = "object" /\ \E i \in 1..Len(e.entries) : e.entries[i].k = key
\* the first rule in the priority order whose tag is present on the element
FirstPresent(e) ==
    LET m == FirstMatch({i \in 1..Len(Priority) : TagPresent(e, Priority[i].key)})
    IN  IF m = 0 THEN "generic" ELSE Priority[m].rule
\* the positions of the fragments an element pushed itself
OwnFragments(path) == {p \in 1..Len(origins) : origins[p] = path}
\* a fragment without white space
IsWord(s) == s # <<>> /\ \A i \in 1..Len(s) : s[i] \notin WhiteSpace
\* the fragment at p stands between two texts
BetweenTexts(p) ==
    /\ 1 < p /\ p < Len(walkParts)
    /\ IsWord(walkParts[p - 1]) /\ IsWord(walkParts[p + 1])

\* C21: an element whose first structural tag is the tab tag, be its value
\* empty or not, pushes exactly one fragment, a tab, and one whose first
\* structural tag is the line-break tag pushes exactly one newline; the text
\* extractText returns holds a tab character for a tab between two texts and
\* a newline character for a line break between two texts.
C21_TabAndLineBreakEncoded ==
    /\ \A n \in 1..Len(visited) :
          LET e == NodeAt(parsedDoc, visited[n].path)
              own == OwnFragments(visited[n].path)
          IN  /\ FirstPresent(e) = "tab" =>
                    Cardinality(own) = 1 /\ \A p \in own : walkParts[p] = <<"\t">>
              /\ FirstPresent(e) = "line-break" =>
                    Cardinality(own) = 1 /\ \A p \in own : walkParts[p] = <<"\n">>
    /\ finalText # None =>
          \A p \in 1..Len(walkParts) :
              BetweenTexts(p) =>
                  /\ walkParts[p] = <<"\t">> => Includes(finalText[1], <<"\t">>)
                  /\ walkParts[p] = <<"\n">> => Includes(finalText[1], <<"\n">>)

\* the fragment the literal-text child of an element is to contribute, if any
ExpectedLiteral(wt) ==
    IF wt.kind = "string" THEN Some(wt.s)
    ELSE IF wt.kind = "object" /\ Prop(wt, K_xmlspace) = Str(S_preserve)
            /\ TagPresent(wt, K_text)
         THEN Some(Prop(wt, K_text).s)
    ELSE None
\* every item of a walked array has been walked
SiblingsWalked ==
    \A n \in 1..Len(visited) :
        visited[n].rule = "array" =>
            \A i \in 1..Len(NodeAt(parsedDoc, visited[n].path).items) :
                \E k \in 1..Len(visited) : visited[k].path = Append(visited[n].path, i)

\* C22: an element with a literal-text tag contributes the child itself when
\* the child is a string, the child's text-content key when the child is an
\* element with the preserve-whitespace attribute, and nothing for any other
\* shape of the child (text that is blank or holds a schema address is left
\* out); the walk goes on with the next sibling.
C22_LiteralTextShapes ==
    /\ \A n \in 1..Len(visited) :
          LET e == NodeAt(parsedDoc, visited[n].path)
              own == OwnFragments(visited[n].path)
              expected == ExpectedLiteral(Prop(e, K_wt))
          IN  TagPresent(e, K_wt) =>
                  IF expected # None /\ MeaningfulText(Str(expected[1]))
                  THEN Cardinality(own) = 1 /\ \A p \in own : walkParts[p] = expected[1]
                  ELSE own = {}
    /\ finalText # None => SiblingsWalked

====
